---------------------------- MODULE Spec2Model ----------------------------
(***************************************************************************)
(* journaLLM: journal ingestion, context-window assembly and the chat      *)
(* dispatch pathway, modelled from the Python sources under src/backend.   *)
(*                                                                         *)
(* Conventions                                                             *)
(*  - A text (Python str) is a sequence of tokens; a token is a TLA+       *)
(*    string standing for a run of characters.  " " and "\n" are the       *)
(*    whitespace tokens, so str.strip() and "\n".join() act on tokens.     *)
(*  - Optional[T] is None == <<>> or Some(v) == <<v>>.                      *)
(*  - A number (int score or float hours) is an integer count of           *)
(*    hundredths: 5 is 500, 7.0 is 700, 6.33 is 633.                       *)
(*  - A date is a day ordinal d, standing for 2024-02-d.                   *)
(***************************************************************************)
EXTENDS Integers, Sequences, FiniteSets, TLC

(***************************************************************************)
(* Bounds of the model.                                                    *)
(***************************************************************************)
\* Longest history list a chat request carries.
MaxHistory == 3
\* Most (user, assistant) turns handed directly to chat_with_journal_context.
MaxTurns == 2
\* Largest day ordinal of a request window or of an entry.
MaxDate == 2
\* Largest row id the ingests may hand out before the model stops them.
MaxId == 3
\* Entries of the palette the context-window specification draws its store from.
MaxEntries == 5
\* Most pages with a continuation token the WHOOP API serves in one request.
MaxPages == 2
MaxRaw == 5

Dates == 1..MaxDate

(***************************************************************************)
(* Optional values and small helpers.                                      *)
(***************************************************************************)
None == <<>>
Some(v) == <<v>>
IsNone(o) == o = <<>>
Get(o) == o[1]

SP == " "
NL == "\n"
IsSpace(tok) == tok \in {SP, NL}

RECURSIVE Flatten(_)
Flatten(seqs) ==
    IF seqs = <<>> THEN <<>> ELSE Head(seqs) \o Flatten(Tail(seqs))

RECURSIVE SumSeq(_)
SumSeq(s) == IF s = <<>> THEN 0 ELSE Head(s) + SumSeq(Tail(s))

RECURSIVE SetToSeqs(_)
\* All orderings of a finite set.
SetToSeqs(S) ==
    IF S = {} THEN {<<>>}
    ELSE UNION {{<<x>> \o t : t \in SetToSeqs(S \ {x})} : x \in S}

SeqsUpTo(S, n) == UNION {[1..k -> S] : k \in 0..n}

\* str.join: the parts with the separator token between neighbours.
RECURSIVE Join(_, _)
Join(sep, parts) ==
    IF parts = <<>> THEN <<>>
    ELSE IF Len(parts) = 1 THEN Head(parts)
    ELSE Head(parts) \o sep \o Join(sep, Tail(parts))

\* str.strip(): leading and trailing whitespace tokens removed.
RECURSIVE LStrip(_)
LStrip(t) ==
    IF t # <<>> /\ IsSpace(Head(t)) THEN LStrip(Tail(t)) ELSE t

RECURSIVE RStrip(_)
RStrip(t) ==
    IF t # <<>> /\ IsSpace(t[Len(t)]) THEN RStrip(SubSeq(t, 1, Len(t) - 1)) ELSE t

Strip(t) == LStrip(RStrip(t))

\* datetime.date.__str__ / isoformat / strftime("%Y-%m-%d") of day ordinal d.
DateStr(d) ==
    IF d < 10 THEN <<"2024-02-0" \o ToString(d)>> ELSE <<"2024-02-" \o ToString(d)>>

\* str(float) of a number given in hundredths: 500 -> "5.0", 650 -> "6.5",
\* 633 -> "6.33", 605 -> "6.05".
FloatStr(h) ==
    LET whole == h \div 100
        frac  == h % 100
    IN  IF frac % 10 = 0
        THEN <<ToString(whole) \o "." \o ToString(frac \div 10)>>
        ELSE IF frac < 10
             THEN <<ToString(whole) \o ".0" \o ToString(frac)>>
             ELSE <<ToString(whole) \o "." \o ToString(frac)>>


(***************************************************************************)
(* The store: the four tables of models.py as sets of rows.                *)
(***************************************************************************)
EmptyStore == [entries |-> {}, metadata |-> {}, events |-> {}, people |-> {}]

\* Column(Integer, primary_key=True, autoincrement=True) on SQLite: the new
\* rowid is one more than the largest rowid in the table.
NextId(rows) ==
    IF rows = {} THEN 1
    ELSE (CHOOSE i \in {r.id : r \in rows} : \A r \in rows : r.id <= i) + 1

\* Rows in primary-key order, the order a relationship collection loads in.
RECURSIVE SeqById(_)
SeqById(rows) ==
    IF rows = {} THEN <<>>
    ELSE LET first == CHOOSE r \in rows : \A o \in rows : r.id <= o.id
         IN  <<first>> \o SeqById(rows \ {first})

(***************************************************************************)
(* repository.py                                                           *)
(***************************************************************************)
_serialize_entry(store, entry) ==
    LET metas == {m \in store.metadata : m.entry_id = entry.id}
        meta  == IF metas = {} THEN None ELSE Some(CHOOSE m \in metas : TRUE)
        field(name) == IF IsNone(meta) THEN None ELSE Some(Get(meta)[name])
        evts  == SeqById({e \in store.events : e.entry_id = entry.id})
        people(evt) == SeqById({p \in store.people : p.event_id = evt.id})
    IN  [id          |-> entry.id,
         date        |-> entry.entry_date,
         summary     |-> IF IsNone(meta) THEN None ELSE Get(meta).summary,
         metrics     |-> [mood_score   |-> field("mood_score"),
                          energy_score |-> field("energy_score"),
                          stress_score |-> field("stress_score"),
                          sleep_hours  |-> field("sleep_hours")],
         events      |-> [i \in 1..Len(evts) |->
                            [id             |-> evts[i].id,
                             description    |-> evts[i].description,
                             category       |-> evts[i].category,
                             effect_on_mood |-> evts[i].effect_on_mood,
                             people         |-> [j \in 1..Len(people(evts[i])) |->
                                                   people(evts[i])[j].name]]],
         source_path |-> entry.source_path]

\* A query that leaves out the entries of the end date.
EntriesBeforeEnd(store, start, end) ==
    LET rows == {e \in store.entries : start <= e.entry_date /\ e.entry_date < end}
    IN  {[i \in 1..Len(s) |-> _serialize_entry(store, s[i])] :
            s \in {t \in SetToSeqs(rows) :
                     \A i \in 1..(Len(t) - 1) : t[i].entry_date <= t[i + 1].entry_date}}

\* The possible results of the query: the entries with start <= entry_date <=
\* end (SQL BETWEEN), ascending by entry_date; rows of one date come in an
\* order ORDER BY leaves open, so every such order is a possible result.
list_entries_between(store, start, end) ==
    LET rows == {e \in store.entries : start <= e.entry_date /\ e.entry_date <= end}
    IN  {[i \in 1..Len(s) |-> _serialize_entry(store, s[i])] :
            s \in {t \in SetToSeqs(rows) :
                     \A i \in 1..(Len(t) - 1) : t[i].entry_date <= t[i + 1].entry_date}}

(***************************************************************************)
(* context_builder.py                                                      *)
(***************************************************************************)
MetricKeys == <<"mood_score", "energy_score", "stress_score", "sleep_hours">>

\* key.replace('_', ' ').title()
MetricTitle(key) ==
    CASE key = "mood_score"   -> "Mood Score"
      [] key = "energy_score" -> "Energy Score"
      [] key = "stress_score" -> "Stress Score"
      [] key = "sleep_hours"  -> "Sleep Hours"

\* round(total / n, 2) with total in hundredths: the nearest hundredth, an
\* exact tie going to the even one (Python's round on a binary-exact tie).
Round2(total, n) ==
    LET q == total \div n
        r == total % n
    IN  IF 2 * r < n THEN q
        ELSE IF 2 * r > n THEN q + 1
        ELSE IF q % 2 = 0 THEN q ELSE q + 1

\* An average that counts the missing value as 0.
AvgMissingAsZero(values) ==
    LET nums == [i \in 1..Len(values) |-> IF IsNone(values[i]) THEN 0 ELSE Get(values[i])]
    IN  IF values = <<>> THEN None
        ELSE Some(Round2(SumSeq(nums), Len(values)))

_avg(values) ==
    LET clean == SelectSeq(values, LAMBDA v : ~IsNone(v))
        nums  == [i \in 1..Len(clean) |-> Get(clean[i])]
    IN  IF clean = <<>> THEN None
        ELSE Some(Round2(SumSeq(nums), Len(clean)))

_format_metric_line(metrics) ==
    LET part(key) == IF IsNone(metrics[key]) THEN <<>>
                     ELSE << <<MetricTitle(key), ": ">> \o FloatStr(Get(metrics[key])) >>
        parts == Flatten([i \in 1..Len(MetricKeys) |-> part(MetricKeys[i])])
    IN  IF parts # <<>> THEN Join(<<" | ">>, parts) ELSE <<"No metrics available.">>

\* A narrative line that always carries the people part.
EntryLineAlwaysPeople(entry) ==
    LET summary == IF IsNone(entry.summary) \/ Get(entry.summary) = <<>>
                   THEN <<"(no summary)">> ELSE Get(entry.summary)
        events  == entry.events
        event_text ==
            IF events # <<>>
            THEN <<"Key event: ">> \o events[1].description
                 \o <<" (people: ">> \o Join(<<", ">>, events[1].people) \o <<")">>
            ELSE <<"No events captured.">>
    IN  <<"- ">> \o DateStr(entry.date) \o <<": ">> \o summary \o <<" | ">> \o event_text

\* A narrative line that names every event of the entry.
EntryLineAllEvents(entry) ==
    LET summary == IF IsNone(entry.summary) \/ Get(entry.summary) = <<>>
                   THEN <<"(no summary)">> ELSE Get(entry.summary)
        events  == entry.events
        event_text ==
            IF events # <<>>
            THEN <<"Key event: ">>
                 \o Join(<<"; ">>, [i \in 1..Len(events) |-> events[i].description])
                 \o (IF events[1].people # <<>>
                     THEN <<" (people: ">> \o Join(<<", ">>, events[1].people) \o <<")">>
                     ELSE <<>>)
            ELSE <<"No events captured.">>
    IN  <<"- ">> \o DateStr(entry.date) \o <<": ">> \o summary \o <<" | ">> \o event_text

\* One narrative line of _build_context_payload (lines 41-53).
EntryLine(entry) ==
    LET summary == IF IsNone(entry.summary) \/ Get(entry.summary) = <<>>
                   THEN <<"(no summary)">> ELSE Get(entry.summary)
        events  == entry.events
        event_text ==
            IF events # <<>>
            THEN <<"Key event: ">> \o events[1].description
                 \o (IF events[1].people # <<>>
                     THEN <<" (people: ">> \o Join(<<", ">>, events[1].people) \o <<")">>
                     ELSE <<>>)
            ELSE <<"No events captured.">>
    IN  <<"- ">> \o DateStr(entry.date) \o <<": ">> \o summary \o <<" | ">> \o event_text

_build_context_payload(entries, coverage_line) ==
    LET with_metrics == SelectSeq(entries, LAMBDA e : DOMAIN e.metrics # {})
        column(key)  == [i \in 1..Len(with_metrics) |-> with_metrics[i].metrics[key]]
        metrics == [mood_score   |-> _avg(column("mood_score")),
                    energy_score |-> _avg(column("energy_score")),
                    stress_score |-> _avg(column("stress_score")),
                    sleep_hours  |-> _avg(column("sleep_hours"))]
        lines == <<coverage_line, <<"Averages -> ">> \o _format_metric_line(metrics)>>
                 \o [i \in 1..Len(entries) |-> EntryLine(entries[i])]
    IN  [entries |-> entries, metrics |-> metrics, text |-> Join(<<NL>>, lines)]

\* A window whose empty-range line names the dates the other way round.
SwappedDatesWindow(entries, start, end) ==
    LET coverage_line ==
            IF entries # <<>>
            THEN <<"Context window coverage: ">> \o DateStr(entries[1].date) \o <<" to ">>
                 \o DateStr(entries[Len(entries)].date)
                 \o <<" (", ToString(Len(entries)), " entries).">>
            ELSE <<"No journal entries stored between ">> \o DateStr(end)
                 \o <<" and ">> \o DateStr(start) \o <<".">>
    IN  _build_context_payload(entries, coverage_line)

\* build_context_window, given the rows list_entries_between returned.
build_context_window(entries, start, end) ==
    LET coverage_line ==
            IF entries # <<>>
            THEN <<"Context window coverage: ">> \o DateStr(entries[1].date) \o <<" to ">>
                 \o DateStr(entries[Len(entries)].date)
                 \o <<" (", ToString(Len(entries)), " entries).">>
            ELSE <<"No journal entries stored between ">> \o DateStr(start)
                 \o <<" and ">> \o DateStr(end) \o <<".">>
    IN  _build_context_payload(entries, coverage_line)

(***************************************************************************)
(* The language-model backends (ollama.chat, GenerativeModel) are outside  *)
(* the repository: a call raises, or answers with a content that is no     *)
(* text (None) or a text.                                                  *)
(***************************************************************************)
BackendErrors == {<<"connection refused">>}
ReplyTexts == {<<>>, <<SP>>, <<"fine">>, <<NL, "fine", SP, "day", SP>>}
BackendOutcomes ==
    {[kind |-> "raise", error |-> e] : e \in BackendErrors}
    \cup {[kind |-> "reply", content |-> c] : c \in {None} \cup {Some(t) : t \in ReplyTexts}}

\* What a Python call gives back: a value, or a raised exception's message.
Returned(v) == [ok |-> TRUE, value |-> v]
Raised(msg) == [ok |-> FALSE, error |-> msg]

NoStripError == <<"'NoneType' object has no attribute 'strip'">>

(***************************************************************************)
(* services/llm_client.py: the local (Ollama) variant.                     *)
(***************************************************************************)
\* The f-string system prompt of chat_with_journal_context (lines 143-147).
OllamaSystemPrompt(window_start, window_end) ==
    <<"You are a personal journaling assistant.", NL,
      "You have access to structured journal summaries covering ">>
    \o DateStr(window_start) \o <<" to ">> \o DateStr(window_end) \o <<".", NL,
      "Use the provided context verbatim; do not fabricate details outside it.", NL,
      "If the context does not mention something, say you are unsure.", NL,
      "Keep answers concise, reflective, and actionable.">>

\* "if history:" -- history is None or Some(sequence of <<user_msg,
\* assistant_msg>> pairs); None and the empty sequence are both falsy.
HasHistory(history) == ~IsNone(history) /\ Get(history) # <<>>

\* The parts appended for the history (lines 156-161).
OllamaHistoryParts(history) ==
    IF ~HasHistory(history) THEN <<>>
    ELSE << <<"Conversation history:">> >>
         \o Flatten([idx \in 1..Len(Get(history)) |->
                << <<ToString(idx) \o ". User: ">> \o Get(history)[idx][1],
                   <<ToString(idx) \o ". Assistant: ">> \o Get(history)[idx][2] >>])
         \o << <<>> >>

\* user_content of chat_with_journal_context (lines 149-165).
OllamaUserContent(message, context_text, history) ==
    LET parts == << <<"=== Journal Context Start ===">>,
                    context_text,
                    <<"=== Journal Context End ===">>,
                    <<>> >>
                 \o OllamaHistoryParts(history)
                 \o << <<"User question: ">> \o message >>
    IN  Join(<<NL>>, parts)

\* The messages _chat hands to ollama.chat (lines 80-86).
OllamaMessages(message, window_start, window_end, history, context_text) ==
    <<[role |-> "system", content |-> OllamaSystemPrompt(window_start, window_end)],
      [role |-> "user", content |-> OllamaUserContent(message, context_text, history)]>>

\* A _chat that returns the content as the backend gave it.
ChatUntrimmed(outcome) ==
    IF outcome.kind = "raise" THEN Raised(outcome.error)
    ELSE IF IsNone(outcome.content) THEN Raised(NoStripError)
    ELSE Returned(Get(outcome.content))

\* _chat (lines 78-87): the backend's outcome turned into the call's result.
_chat(outcome) ==
    IF outcome.kind = "raise" THEN Raised(outcome.error)
    ELSE IF IsNone(outcome.content) THEN Raised(NoStripError)
    ELSE Returned(Strip(Get(outcome.content)))

(***************************************************************************)
(* services/gemini_client.py: the cloud (Gemini) variant.                  *)
(***************************************************************************)
\* system_instructions of chat_with_journal_context (lines 117-123): the
\* triple-quoted text opens and closes with a line break.
GeminiSystemInstructions(window_start, window_end) ==
    <<NL, "You are a personal journaling assistant.", NL,
      "You have access to structured journal summaries covering ">>
    \o DateStr(window_start) \o <<" to ">> \o DateStr(window_end) \o <<".", NL,
      "Use the provided context verbatim; do not fabricate details outside it.", NL,
      "If the context does not mention something, say you are unsure.", NL,
      "Keep answers concise, reflective, and actionable.", NL>>

\* A history text that numbers the turns from 0.
ZeroBasedHistoryText(history) ==
    IF ~HasHistory(history) THEN <<>>
    ELSE LET history_lines ==
                << <<"Conversation history:">> >>
                \o Flatten([idx \in 1..Len(Get(history)) |->
                       << <<ToString(idx - 1) \o ". User: ">> \o Get(history)[idx][1],
                          <<ToString(idx - 1) \o ". Assistant: ">> \o Get(history)[idx][2] >>])
         IN  Join(<<NL>>, history_lines) \o <<NL, NL>>

\* history_text (lines 125-131).
GeminiHistoryText(history) ==
    IF ~HasHistory(history) THEN <<>>
    ELSE LET history_lines ==
                << <<"Conversation history:">> >>
                \o Flatten([idx \in 1..Len(Get(history)) |->
                       << <<ToString(idx) \o ". User: ">> \o Get(history)[idx][1],
                          <<ToString(idx) \o ". Assistant: ">> \o Get(history)[idx][2] >>])
         IN  Join(<<NL>>, history_lines) \o <<NL, NL>>

\* prompt (lines 133-142).
GeminiPrompt(message, window_start, window_end, history, context_text) ==
    GeminiSystemInstructions(window_start, window_end)
    \o <<NL, NL, "=== Journal Context Start ===", NL>>
    \o context_text
    \o <<NL, "=== Journal Context End ===", NL, NL>>
    \o GeminiHistoryText(history)
    \o <<"User question: ">>
    \o message
    \o <<NL, "Assistant:">>

\* lines 144-145: generate_content, then response.text.strip().
GeminiReply(outcome) ==
    IF outcome.kind = "raise" THEN Raised(outcome.error)
    ELSE IF IsNone(outcome.content) THEN Raised(NoStripError)
    ELSE Returned(Strip(Get(outcome.content)))

(***************************************************************************)
(* api/chat.py                                                             *)
(***************************************************************************)
\* A handler without the range check of line 39.
NoRangeCheck(request) == FALSE

\* Line 39.
InvalidRange(request) == request.start_date > request.end_date

\* Lines 46-54, i counting from 0 as in the source; history[i] is the
\* (i + 1)-th element of the sequence.
RECURSIVE HistoryTuplesFrom(_, _)
HistoryTuplesFrom(history, i) ==
    IF i >= Len(history) - 1 THEN <<>>
    ELSE (IF /\ history[i + 1].role = "user"
             /\ i + 1 < Len(history)
             /\ history[i + 2].role = "assistant"
          THEN << <<history[i + 1].content, history[i + 2].content>> >>
          ELSE <<>>)
         \o HistoryTuplesFrom(history, i + 2)

\* A pairing that slides over the history one message at a time.
RECURSIVE SlidingTuplesFrom(_, _)
SlidingTuplesFrom(history, i) ==
    IF i >= Len(history) - 1 THEN <<>>
    ELSE (IF history[i + 1].role = "user" /\ history[i + 2].role = "assistant"
          THEN << <<history[i + 1].content, history[i + 2].content>> >>
          ELSE <<>>)
         \o SlidingTuplesFrom(history, i + 1)

SlidingTuples(history) == SlidingTuplesFrom(history, 0)

history_tuples(history) == HistoryTuplesFrom(history, 0)

\* Line 61: history_tuples if history_tuples else None.
HistoryArg(tuples) == IF tuples # <<>> THEN Some(tuples) ELSE None

\* Lines 40-43.
BadRangeResponse ==
    [status |-> 400, detail |-> <<"Start date must be on or before end date">>]

\* An error detail that hides the cause.
GenericErrorDetail(error) == <<"Failed to get response from assistant">>

\* Lines 64-67.
ChatErrorDetail(error) == <<"Failed to get response from assistant: ">> \o error

\* Lines 56-73: the dispatcher's result turned into the HTTP response.
ChatResponse(request, result) ==
    IF result.ok
    THEN [status |-> 200, response |-> result.value,
          start_date |-> request.start_date, end_date |-> request.end_date]
    ELSE [status |-> 500, detail |-> ChatErrorDetail(result.error)]

(***************************************************************************)
(* JSON values of the extraction response, as json.loads returns them.     *)
(***************************************************************************)
JNull == [t |-> "null"]
JInt(n) == [t |-> "int", v |-> n]
\* A float, in hundredths.
JFloat(h) == [t |-> "float", v |-> h]
JStr(text) == [t |-> "str", text |-> text]
\* json.loads reads the literal Infinity as float("inf").
JInf == [t |-> "inf"]

\* The numeric literals among the string values of the model, in hundredths:
\* int("8") is 8, float("7.5") is 7.5; any other string raises ValueError.
IntLiteral(text) == IF text = <<"8">> THEN Some(800) ELSE None
FloatLiteral(text) ==
    IF text = <<"8">> THEN Some(800)
    ELSE IF text = <<"7.5">> THEN Some(750) ELSE None

\* int() of a float truncates toward zero.
Truncate(h) == IF h >= 0 THEN (h \div 100) * 100 ELSE -(((-h) \div 100) * 100)

(***************************************************************************)
(* ingest_journal.py                                                       *)
(***************************************************************************)
\* Lines 32-36: int(value) raises TypeError or ValueError, which give the
\* default, for every value but the infinite float, for which it raises
\* OverflowError (see IntOverflows).
_safe_int(value, default) ==
    CASE value.t = "int"   -> value.v * 100
      [] value.t = "float" -> Truncate(value.v)
      [] value.t = "str"   -> IF IsNone(IntLiteral(value.text)) THEN default
                              ELSE Get(IntLiteral(value.text))
      [] OTHER             -> default

_safe_float(value, default) ==
    CASE value.t = "int"   -> value.v * 100
      [] value.t = "float" -> value.v
      [] value.t = "str"   -> IF IsNone(FloatLiteral(value.text)) THEN default
                              ELSE Get(FloatLiteral(value.text))
      [] OTHER             -> default

\* int(float("inf")) raises OverflowError, which the except clause of
\* _safe_int (line 35) does not name: the error leaves _safe_int.
IntOverflows(value) == value.t = "inf"

OverflowError == <<"cannot convert float infinity to integer">>

\* hashlib.sha256(text).hexdigest(): one digest per text.
_content_hash(text) == <<"sha256:">> \o text

\* models.py line 26, unique=True on source_path: the INSERT of a row with
\* this path is refused when a row with the path is stored.
UniqueSourcePath(entries, path) == \A e \in entries : e.source_path # path

\* A delete that removes every entry of the date of the row with this id.
DeleteByDate(store, id) ==
    LET dates == {e.entry_date : e \in {x \in store.entries : x.id = id}}
        gone  == {e.id : e \in {x \in store.entries : x.entry_date \in dates}}
        evts  == {e \in store.events : e.entry_id \in gone}
    IN  [entries  |-> {e \in store.entries : e.id \notin gone},
         metadata |-> {m \in store.metadata : m.entry_id \notin gone},
         events   |-> store.events \ evts,
         people   |-> {p \in store.people : p.event_id \notin {e.id : e \in evts}}]

\* A delete that removes the entry row and leaves the rows it owns.
DeleteEntryOnly(store, id) == [store EXCEPT !.entries = {e \in @ : e.id # id}]

\* session.delete(entry) and the flush: the row with this id, and by the
\* relationships' cascade="all, delete-orphan" its metadata, events and their
\* people.
DeleteEntry(store, id) ==
    LET evts == {e \in store.events : e.entry_id = id}
    IN  [entries  |-> {e \in store.entries : e.id # id},
         metadata |-> {m \in store.metadata : m.entry_id # id},
         events   |-> store.events \ evts,
         people   |-> {p \in store.people : p.event_id \notin {e.id : e \in evts}}]

\* db.py get_session: commit when the block ends normally, rollback when it
\* raises.  block is [store: the session's pending state, result].
get_session(before, block) ==
    [store  |-> IF block.result.ok THEN block.store ELSE before,
     result |-> block.result]

\* Lines 84-93: the JournalMetadata row of a metadata dict.
MetadataRow(store, entry_id, metadata) ==
    LET metrics == IF IsNone(metadata.metrics)
                   THEN [k \in {"mood_score", "energy_score", "stress_score", "sleep_hours"}
                            |-> JNull]
                   ELSE Get(metadata.metrics)
    IN  [id           |-> NextId(store.metadata),
         entry_id     |-> entry_id,
         summary      |-> metadata.summary,
         mood_score   |-> _safe_int(metrics.mood_score, 500),
         energy_score |-> _safe_int(metrics.energy_score, 500),
         stress_score |-> _safe_int(metrics.stress_score, 500),
         sleep_hours  |-> _safe_float(metrics.sleep_hours, 700)]

\* Lines 95-107: the Event rows, in payload order.
EventRows(store, entry_id, payloads) ==
    LET base == NextId(store.events) - 1
        category(p) ==
            LET given == IF IsNone(p.category) \/ Get(p.category) = <<>>
                         THEN <<"other">> ELSE Get(p.category)
            IN  IF Strip(given) = <<>> THEN <<"other">> ELSE Strip(given)
    IN  {[id             |-> base + i,
          entry_id       |-> entry_id,
          description    |-> Strip(IF IsNone(payloads[i].description) THEN <<>>
                                   ELSE Get(payloads[i].description)),
          category       |-> category(payloads[i]),
          effect_on_mood |-> _safe_int(payloads[i].effect_on_mood, 0)]
         : i \in 1..Len(payloads)}

\* Lines 102-107: the Person rows; "if not person_name: continue" skips the
\* empty name, the others are stored stripped.
PersonRows(store, payloads) ==
    LET base   == NextId(store.events) - 1
        names(i) == SelectSeq(IF IsNone(payloads[i].people) THEN <<>>
                              ELSE Get(payloads[i].people),
                              LAMBDA person_name : person_name # <<>>)
        flat   == Flatten([i \in 1..Len(payloads) |->
                     [j \in 1..Len(names(i)) |-> [event_id |-> base + i,
                                                    name |-> Strip(names(i)[j])]]])
        first  == NextId(store.people) - 1
    IN  {[id |-> first + k, event_id |-> flat[k].event_id, name |-> flat[k].name]
         : k \in 1..Len(flat)}

(***************************************************************************)
(* services/llm_client.py: metadata extraction.                            *)
(***************************************************************************)
\* The code-fence marker: three backquote characters.
FENCE == "<fence>"

\* The extraction payloads of the model: the JSON object bodies the backend
\* can answer with, and the dict json.loads makes of each.
FullPayload ==
    [kind    |-> "dict",
     summary |-> Some(<<"Good day">>),
     metrics |-> Some([mood_score |-> JInt(7), energy_score |-> JInt(6),
                       stress_score |-> JInt(3), sleep_hours |-> JFloat(650)]),
     events  |-> Some(<< [description    |-> Some(<<"Lunch with Sam">>),
                          category       |-> Some(<<"social">>),
                          effect_on_mood |-> JInt(1),
                          people         |-> Some(<< <<"Sam">> >>)] >>)]

BarePayload ==
    [kind |-> "dict", summary |-> None, metrics |-> None, events |-> None]

ListPayload == [kind |-> "list"]

\* Line 65, re.sub of the opening fence on a text that starts with it: the
\* fence, an optional "json" tag, then any whitespace.
RemoveOpeningFence(t) ==
    LET rest == Tail(t)
    IN  LStrip(IF rest # <<>> /\ Head(rest) = "json" THEN Tail(rest) ELSE rest)

\* Line 67, re.sub of the closing fence: a fence with only whitespace after
\* it, together with one line break before it.
RemoveClosingFence(t) ==
    LET body == RStrip(t)
    IN  IF body # <<>> /\ body[Len(body)] = FENCE
        THEN LET cut == SubSeq(body, 1, Len(body) - 1)
             IN  IF cut # <<>> /\ cut[Len(cut)] = NL
                 THEN SubSeq(cut, 1, Len(cut) - 1) ELSE cut
        ELSE t

\* A cleaner that cuts at the first closing brace instead of the last.
CleanToFirstClose(raw_text) ==
    LET stripped == Strip(raw_text)
        unfenced == IF stripped # <<>> /\ Head(stripped) = FENCE
                    THEN RemoveClosingFence(RemoveOpeningFence(stripped))
                    ELSE stripped
        opens    == {i \in 1..Len(unfenced) : unfenced[i] = "{"}
        closes   == {i \in 1..Len(unfenced) : unfenced[i] = "}"}
        start    == CHOOSE i \in opens : \A j \in opens : i <= j
        end      == CHOOSE i \in closes : \A j \in closes : i <= j
    IN  Strip(IF opens # {} /\ closes # {} /\ end > start
              THEN SubSeq(unfenced, start, end)
              ELSE unfenced)

\* _clean_json_response (lines 58-75): strip; when the text starts with a
\* fence, remove the opening and the closing fence; cut from the first "{" to
\* the last "}" when the one precedes the other; strip.
_clean_json_response(raw_text) ==
    LET stripped == Strip(raw_text)
        unfenced == IF stripped # <<>> /\ Head(stripped) = FENCE
                    THEN RemoveClosingFence(RemoveOpeningFence(stripped))
                    ELSE stripped
        opens    == {i \in 1..Len(unfenced) : unfenced[i] = "{"}
        closes   == {i \in 1..Len(unfenced) : unfenced[i] = "}"}
        start    == CHOOSE i \in opens : \A j \in opens : i <= j
        end      == CHOOSE i \in closes : \A j \in closes : j <= i
    IN  Strip(IF opens # {} /\ closes # {} /\ end > start
              THEN SubSeq(unfenced, start, end)
              ELSE unfenced)

\* json.loads on the texts of the model.
JsonLoads(text) ==
    CASE text = <<"{", "full", "}">> -> Returned(FullPayload)
      [] text = <<"{", "}">>         -> Returned(BarePayload)
      [] text = <<"[", "]">>         -> Returned(ListPayload)
      [] OTHER                       -> Raised(<<"Expecting value: line 1 column 1 (char 0)">>)

\* An extraction that answers with an empty dict when the text does not parse.
LenientExtraction(outcome) ==
    IF outcome.kind = "raise" THEN Raised(outcome.error)
    ELSE IF IsNone(outcome.content) THEN Raised(NoStripError)
    ELSE LET data == JsonLoads(_clean_json_response(Get(outcome.content)))
         IN  IF data.ok THEN data ELSE Returned(BarePayload)

\* extract_journal_metadata (lines 90-116), given the backend's outcome.
extract_journal_metadata(outcome) ==
    IF outcome.kind = "raise" THEN Raised(outcome.error)
    ELSE IF IsNone(outcome.content) THEN Raised(NoStripError)
    ELSE LET raw_text == Get(outcome.content)
             data     == JsonLoads(_clean_json_response(raw_text))
         IN  IF data.ok THEN data
             ELSE Raised(<<"Failed to parse Ollama JSON: ">> \o data.error
                         \o <<NL, "Raw: ">>
                         \o SubSeq(raw_text, 1, IF Len(raw_text) < 500 THEN Len(raw_text) ELSE 500))

(***************************************************************************)
(* ingest_journal.py: the body of the session block (lines 57-107).        *)
(***************************************************************************)
IntegrityError == <<"UNIQUE constraint failed: journal_entries.source_path">>
NotADictError == <<"'list' object has no attribute 'get'">>
MultipleResultsError == <<"Multiple rows were found when one or none was required">>

\* Lines 57-61: the entries stored for the path.
ExistingFor(store, path) == {e \in store.entries : e.source_path = path}

\* An ingest that inserts the new row without looking at the stored ones.
InsertEntry(store, call) ==
    [store  |-> [store EXCEPT !.entries =
                    @ \cup {[id          |-> NextId(store.entries),
                             entry_date  |-> call.entry_date,
                             source_path |-> call.path,
                             raw_text    |-> call.text,
                             file_hash   |-> call.file_hash]}],
     result |-> Returned(NextId(store.entries))]

\* Lines 70-82: the delete of the row the lookup loaded and its flush, then
\* the new row and its flush, which gives the row its id or is refused by
\* the unique constraint.  call.existing is the id of the loaded row, if any.
WriteEntry(store, call) ==
    LET deleted == IF IsNone(call.existing) THEN store
                   ELSE DeleteEntry(store, Get(call.existing))
        entry   == [id          |-> NextId(deleted.entries),
                    entry_date  |-> call.entry_date,
                    source_path |-> call.path,
                    raw_text    |-> call.text,
                    file_hash   |-> call.file_hash]
    IN  IF ~UniqueSourcePath(deleted.entries, call.path)
        THEN [store |-> deleted, result |-> Raised(IntegrityError)]
        ELSE [store  |-> [deleted EXCEPT !.entries = @ \cup {entry}],
              result |-> Returned(entry.id)]

\* Lines 68-107, extraction having returned or raised: the session's pending
\* state when the block ends, and how it ends.
IngestBlock(store, call, extracted) ==
    IF ~extracted.ok THEN [store |-> store, result |-> extracted]
    ELSE
    LET metadata == extracted.value
        written  == WriteEntry(store, call)
        added    == written.store
    IN  IF ~written.result.ok THEN written
        ELSE IF metadata.kind # "dict"
        THEN [store |-> added, result |-> Raised(NotADictError)]
        ELSE
        LET entry_id == written.result.value
            payloads == IF IsNone(metadata.events) THEN <<>> ELSE Get(metadata.events)
            metrics  == IF IsNone(metadata.metrics) THEN <<>>
                        ELSE <<Get(metadata.metrics).mood_score,
                               Get(metadata.metrics).energy_score,
                               Get(metadata.metrics).stress_score>>
        IN  IF \/ \E i \in 1..Len(metrics) : IntOverflows(metrics[i])
               \/ \E i \in 1..Len(payloads) : IntOverflows(payloads[i].effect_on_mood)
            THEN [store |-> added, result |-> Raised(OverflowError)]
            ELSE
            [store  |-> [entries  |-> added.entries,
                         metadata |-> added.metadata
                                      \cup {MetadataRow(added, entry_id, metadata)},
                         events   |-> added.events
                                      \cup EventRows(added, entry_id, payloads),
                         people   |-> added.people \cup PersonRows(added, payloads)],
             result |-> Returned(TRUE)]

(***************************************************************************)
(* services/whoop_client.py: the WHOOP API client.  The WHOOP API is       *)
(* outside the repository: a GET is not answered (httpx raises) or is      *)
(* answered with a status and a JSON body.  A JSON body is                 *)
(* [records, next_token, object]: the "records" and "next_token" keys if   *)
(* present, and the fields of a profile or body-measurement object if the  *)
(* body is one.                                                            *)
(***************************************************************************)
Kinds == <<"cycles", "sleep", "recovery", "workouts">>

\* The endpoint paths of get_cycles, get_sleep, get_recovery, get_workouts
\* (lines 285, 315, 345, 375), get_profile and get_body_measurement.
ListPath(kind) ==
    CASE kind = "cycles"   -> "/v1/cycle"
      [] kind = "sleep"    -> "/v2/activity/sleep"
      [] kind = "recovery" -> "/v2/recovery"
      [] kind = "workouts" -> "/v2/activity/workout"
ProfilePath == "/v1/user/profile/basic"
BodyPath == "/v1/user/measurement/body"

WhoopTokens == {"t1", "t2"}
ConnectError == <<"All connection attempts failed">>
StatusError(status) == <<"HTTP status error ", ToString(status)>>
ValidationError == <<"validation error: field required">>

\* if next_token: / if not next_token: -- None and "" are falsy.
Truthy(next_token) == ~IsNone(next_token) /\ Get(next_token) # ""

\* The records the API holds behind a continuation token of a path.
PageRecords(path, next_token) ==
    IF ~Truthy(next_token) THEN << [id |-> 1, path |-> path] >>
    ELSE IF Get(next_token) = "t1"
    THEN << [id |-> 2, path |-> path], [id |-> 3, path |-> path] >>
    ELSE <<>>

ErrorBody == [records |-> None, next_token |-> None, object |-> None]
ProfileObject == [user_id |-> 7, email |-> "a@b.c"]
BodyObject == [height_meter |-> 180, max_heart_rate |-> 190]

\* What the API may do with a GET of path carrying nextToken.
WhoopOutcomes(path, next_token) ==
    {[kind |-> "unreachable", error |-> ConnectError]}
    \cup {[kind |-> "response", status |-> c, json |-> ErrorBody] : c \in {401, 404, 500}}
    \cup (IF path = ProfilePath
          THEN {[kind |-> "response", status |-> 200,
                 json |-> [records |-> None, next_token |-> None,
                           object |-> Some(ProfileObject)]]}
          ELSE IF path = BodyPath
          THEN {[kind |-> "response", status |-> 200,
                 json |-> [records |-> None, next_token |-> None,
                           object |-> Some(BodyObject)]]}
          ELSE {[kind |-> "response", status |-> 200,
                 json |-> [records |-> Some(PageRecords(path, next_token)),
                           next_token |-> t, object |-> None]]
                : t \in {None} \cup {Some(x) : x \in WhoopTokens}})

\* WhoopClient._get (lines 190-201): 404 is answered as an empty record
\* list, any other error status raises in raise_for_status.
_get(outcome) ==
    IF outcome.kind = "unreachable" THEN Raised(outcome.error)
    ELSE IF outcome.status = 404
    THEN Returned([records |-> Some(<<>>), next_token |-> None, object |-> None])
    ELSE IF outcome.status \notin 200..299 THEN Raised(StatusError(outcome.status))
    ELSE Returned(outcome.json)

\* params of get_cycles / get_sleep / get_recovery / get_workouts (lines
\* 277-283): start_date and end_date are None or Some(date).
ListParams(start_date, end_date, limit, next_token) ==
    [limit     |-> limit,
     start     |-> IF IsNone(start_date) THEN None
                   ELSE Some(DateStr(Get(start_date)) \o <<"T00:00:00.000Z">>),
     end       |-> IF IsNone(end_date) THEN None
                   ELSE Some(DateStr(Get(end_date)) \o <<"T23:59:59.999Z">>),
     nextToken |-> IF Truthy(next_token) THEN next_token ELSE None]

\* Lines 285-287 (and 315-317, 345-347, 375-377): the records and the token
\* of the page, given what _get did.
get_records(got) ==
    IF ~got.ok THEN got
    ELSE Returned([records    |-> IF IsNone(got.value.records) THEN <<>>
                                  ELSE Get(got.value.records),
                   next_token |-> got.value.next_token])

\* UserProfile(**data) / BodyMeasurement(**data) (lines 249, 257): the
\* object, or pydantic's error when the required fields are missing.
get_object(got) ==
    IF ~got.ok THEN got
    ELSE IF IsNone(got.value.object) THEN Raised(ValidationError)
    ELSE Returned(Get(got.value.object))

\* A loop that asks for the first page again and again.
NoRequestToken(pages) == None

\* get_all_*: the token the next request of the loop carries (next_token is
\* None before the first page, then what the last page returned).
NextRequestToken(pages) ==
    IF pages = <<>> THEN None ELSE pages[Len(pages)].next_token

\* get_all_*: if not next_token: break.
LoopDone(next_token) == ~Truthy(next_token)

(***************************************************************************)
(* api/whoop_data.py                                                       *)
(***************************************************************************)
\* _get_client (lines 25-33).
NotAuthenticated ==
    [status |-> 401,
     detail |-> <<"Not authenticated with WHOOP. Please login at /api/whoop/login">>]

\* get_cycles, get_sleep, get_recovery, get_workouts (lines 97-208), the
\* client having been made: one page, its token dropped.
ListResponse(got) ==
    IF ~got.ok THEN [status |-> 500, detail |-> got.error]
    ELSE [status |-> 200, body |-> got.value.records]

\* A profile endpoint that fails when the body read fails.
StrictProfileResponse(profile, body) ==
    IF ~profile.ok THEN [status |-> 500, detail |-> profile.error]
    ELSE IF ~body.ok THEN [status |-> 500, detail |-> body.error]
    ELSE [status |-> 200, profile |-> profile.value, body |-> Some(body.value)]

\* get_profile (lines 76-90), the client having been made.
ProfileResponse(profile, body) ==
    IF ~profile.ok THEN [status |-> 500, detail |-> profile.error]
    ELSE [status |-> 200, profile |-> profile.value,
          body |-> IF body.ok THEN Some(body.value) ELSE None]

\* get_health_summary (lines 225-229).
SummaryBadRange ==
    [status |-> 400, detail |-> <<"start_date must be before or equal to end_date">>]

(***************************************************************************)
(* State.                                                                  *)
(*   store    the database                                                 *)
(*   chat     per request slot of POST /api/chat/: the handler's position  *)
(*            and locals, the messages sent to the backend, its outcome,   *)
(*            the responses produced and the calls counted                 *)
(*   dispatch the last direct call of chat_with_journal_context            *)
(*   window   the last context window built                                *)
(*   ingest   the last call of ingest_journal: arguments, locals, the      *)
(*            extraction outcome if extraction was asked, and the result   *)
(*   whoop    the request to a WHOOP data endpoint: position, locals, the  *)
(*            GETs sent, what the API did with them, the responses         *)
(***************************************************************************)
VARIABLES store, chat, dispatch, window, ingest, whoop, cleanup, oauth, batch

vars == <<store, chat, dispatch, window, ingest, whoop, cleanup, oauth, batch>>

(***************************************************************************)
(* Inputs.                                                                 *)
(***************************************************************************)
ChatIds == {1, 2}
Messages == {<<"How was my week?">>, <<"Did I sleep well?">>}
Contents == {<<"a">>, <<"b">>}
Roles == {"user", "assistant"}
ChatMessages == [role : Roles, content : Contents]
\* The request bodies that pass the pydantic validation of ChatRequest.
ChatRequests ==
    [message : Messages, start_date : Dates, end_date : Dates,
     history : SeqsUpTo(ChatMessages, MaxHistory)]
Turns == {<<u, a>> : u \in Contents, a \in Contents}
DispatchCalls ==
    [message : Messages, start_date : Dates, end_date : Dates,
     history : {None} \cup {Some(h) : h \in SeqsUpTo(Turns, MaxTurns)}]
Paths == {"notes/a.md", "notes/b.md"}
Texts == {<<"walked">>, <<"worked">>}
\* What the extraction backend may answer.
RawResponses ==
    {<<FENCE, "json", NL, "{", "full", "}", NL, FENCE>>,
     <<"Sorry, I cannot help with that.">>,
     <<"[", "]">>}
ExtractionOutcomes ==
    {[kind |-> "raise", error |-> e] : e \in BackendErrors}
    \cup {[kind |-> "reply", content |-> Some(t)] : t \in RawResponses}

DbError == <<"unable to open database file">>

(***************************************************************************)
(* Stores the chat and dispatch specifications start from: what two        *)
(* ingests leave behind.                                                   *)
(***************************************************************************)
IngestCall(db, path, entry_date, text) ==
    [path |-> path, entry_date |-> entry_date, skip_if_unchanged |-> TRUE,
     text |-> text, file_hash |-> _content_hash(text),
     existing |-> IF ExistingFor(db, path) = {} THEN None
                  ELSE Some((CHOOSE e \in ExistingFor(db, path) : TRUE).id)]

Ingested(db, path, entry_date, text, metadata) ==
    get_session(db,
                IngestBlock(db, IngestCall(db, path, entry_date, text),
                            Returned(metadata))).store

SeedStore ==
    Ingested(Ingested(EmptyStore, "notes/a.md", 1, <<"walked">>, FullPayload),
             "notes/b.md", MaxDate, <<"worked">>, BarePayload)

SeedStores == {EmptyStore, SeedStore}

(***************************************************************************)
(* POST /api/chat/ (api/chat.py, services/llm_client.py).                  *)
(***************************************************************************)
ChatIdle ==
    [pc |-> "idle", request |-> None, history_tuples |-> None, context |-> None,
     sent |-> <<>>, backend |-> None, result |-> None, responses |-> <<>>,
     db_queries |-> 0, llm_calls |-> 0]

\* chat.py lines 35-54: the range check, then the history pairing.
ChatBegin(r, request) ==
    /\ chat[r].pc = "idle"
    /\ chat' = [chat EXCEPT ![r] =
                  IF InvalidRange(request)
                  THEN [@ EXCEPT !.pc = "done", !.request = request,
                                 !.responses = <<BadRangeResponse>>]
                  ELSE [@ EXCEPT !.pc = "context", !.request = request,
                                 !.history_tuples = Some(history_tuples(request.history))]]
    /\ UNCHANGED <<store, dispatch, window, ingest, whoop, cleanup, oauth, batch>>

\* llm_client.py lines 137-141: build_context_window, one query of the store.
\* A failing query raises through chat_with_journal_context into chat.py's
\* except clause.
ChatBuildContext(r) ==
    /\ chat[r].pc = "context"
    /\ \/ \E entries \in list_entries_between(store, chat[r].request.start_date,
                                              chat[r].request.end_date) :
             chat' = [chat EXCEPT ![r] =
                        [@ EXCEPT !.pc = "model",
                                  !.db_queries = @ + 1,
                                  !.context = Some(build_context_window(entries,
                                                      chat[r].request.start_date,
                                                      chat[r].request.end_date))]]
       \/ chat' = [chat EXCEPT ![r] =
                     [@ EXCEPT !.pc = "done",
                               !.db_queries = @ + 1,
                               !.result = Some(Raised(DbError)),
                               !.responses = Append(@, ChatResponse(chat[r].request,
                                                                    Raised(DbError)))]]
    /\ UNCHANGED <<store, dispatch, window, ingest, whoop, cleanup, oauth, batch>>

\* A model call that is made again when the backend raised.
RetryingCallModel(r, outcome) ==
    /\ chat[r].pc = "model"
    /\ LET request == chat[r].request
           result  == _chat(outcome)
       IN  chat' = [chat EXCEPT ![r] =
                      IF outcome.kind = "raise" /\ chat[r].llm_calls < 1
                      THEN [@ EXCEPT !.llm_calls = @ + 1, !.backend = Some(outcome)]
                      ELSE [@ EXCEPT !.pc = "done",
                                !.sent = OllamaMessages(request.message,
                                            request.start_date, request.end_date,
                                            HistoryArg(Get(chat[r].history_tuples)),
                                            Get(chat[r].context).text),
                                !.backend = Some(outcome),
                                !.llm_calls = @ + 1,
                                !.result = Some(result),
                                !.responses = Append(@, ChatResponse(request, result))]]
    /\ UNCHANGED <<store, dispatch, window, ingest, whoop, cleanup, oauth, batch>>

\* A model call that takes the context window another request has built,
\* when there is one.
SharedContextCallModel(r, outcome) ==
    /\ chat[r].pc = "model"
    /\ LET request == chat[r].request
           result  == _chat(outcome)
           built   == {o \in ChatIds \ {r} : ~IsNone(chat[o].context)}
           context == IF built = {} THEN Get(chat[r].context)
                      ELSE Get(chat[CHOOSE o \in built : TRUE].context)
       IN  chat' = [chat EXCEPT ![r] =
                      [@ EXCEPT !.pc = "done",
                                !.sent = OllamaMessages(request.message,
                                            request.start_date, request.end_date,
                                            HistoryArg(Get(chat[r].history_tuples)),
                                            context.text),
                                !.backend = Some(outcome),
                                !.llm_calls = @ + 1,
                                !.result = Some(result),
                                !.responses = Append(@, ChatResponse(request, result))]]
    /\ UNCHANGED <<store, dispatch, window, ingest, whoop, cleanup, oauth, batch>>

\* llm_client.py lines 143-167 and _chat, then chat.py lines 63-73: one call
\* of the backend, its outcome, and the response.
ChatCallModel(r, outcome) ==
    /\ chat[r].pc = "model"
    /\ LET request == chat[r].request
           result  == _chat(outcome)
       IN  chat' = [chat EXCEPT ![r] =
                      [@ EXCEPT !.pc = "done",
                                !.sent = OllamaMessages(request.message,
                                            request.start_date, request.end_date,
                                            HistoryArg(Get(chat[r].history_tuples)),
                                            Get(chat[r].context).text),
                                !.backend = Some(outcome),
                                !.llm_calls = @ + 1,
                                !.result = Some(result),
                                !.responses = Append(@, ChatResponse(request, result))]]
    /\ UNCHANGED <<store, dispatch, window, ingest, whoop, cleanup, oauth, batch>>

(***************************************************************************)
(* chat_with_journal_context called directly (cli/chat_cli.py calls the    *)
(* Gemini variant with the turns so far), one action per variant; a        *)
(* behaviour follows one call.                                             *)
(***************************************************************************)
NoDispatch == [variant |-> "none"]

DispatchOllama(call, outcome) ==
    /\ dispatch = NoDispatch
    /\ \/ \E entries \in list_entries_between(store, call.start_date, call.end_date) :
             LET context == build_context_window(entries, call.start_date, call.end_date)
             IN  dispatch' = [variant |-> "ollama", call |-> call,
                              context_text |-> Some(context.text),
                              sent |-> OllamaMessages(call.message, call.start_date,
                                          call.end_date, call.history, context.text),
                              backend |-> Some(outcome),
                              result |-> _chat(outcome)]
       \/ dispatch' = [variant |-> "ollama", call |-> call, context_text |-> None,
                       sent |-> <<>>, backend |-> None, result |-> Raised(DbError)]
    /\ UNCHANGED <<store, chat, window, ingest, whoop, cleanup, oauth, batch>>

DispatchGemini(call, outcome) ==
    /\ dispatch = NoDispatch
    /\ \/ \E entries \in list_entries_between(store, call.start_date, call.end_date) :
             LET context == build_context_window(entries, call.start_date, call.end_date)
             IN  dispatch' = [variant |-> "gemini", call |-> call,
                              context_text |-> Some(context.text),
                              sent |-> GeminiPrompt(call.message, call.start_date,
                                          call.end_date, call.history, context.text),
                              backend |-> Some(outcome),
                              result |-> GeminiReply(outcome)]
       \/ dispatch' = [variant |-> "gemini", call |-> call, context_text |-> None,
                       sent |-> <<>>, backend |-> None, result |-> Raised(DbError)]
    /\ UNCHANGED <<store, chat, window, ingest, whoop, cleanup, oauth, batch>>

(***************************************************************************)
(* build_context_window over a store any writer of the schema may have     *)
(* left: JournalEntry.entry_metadata is optional (uselist=False), and      *)
(* _serialize_entry handles the entry without a metadata row.              *)
(***************************************************************************)
PaletteIds == 1..MaxEntries

PaletteEntry(i) ==
    [id |-> i, entry_date |-> ((i - 1) % MaxDate) + 1,
     source_path |-> "notes/p" \o ToString(i) \o ".md",
     raw_text |-> <<"text", ToString(i)>>,
     file_hash |-> _content_hash(<<"text", ToString(i)>>)]

PaletteMetadata(i) ==
    IF i % 3 = 0 THEN {}
    ELSE {[id |-> i, entry_id |-> i,
           summary |-> IF i % 2 = 1 THEN Some(<<"Good day">>) ELSE None,
           mood_score |-> (3 + i) * 100, energy_score |-> 500,
           stress_score |-> (10 - i) * 100, sleep_hours |-> 600 + 50 * i]}

PaletteEvents(i) ==
    IF i % 2 = 0 THEN {}
    ELSE {[id |-> 10 * i + k, entry_id |-> i,
           description |-> IF k = 1 THEN <<"Lunch with Sam">> ELSE <<"Evening run">>,
           category |-> IF k = 1 THEN <<"social">> ELSE <<"health">>,
           effect_on_mood |-> 100] : k \in (IF i = 1 THEN {1, 2} ELSE {1})}

PalettePeople(i) ==
    IF i = 1 THEN {[id |-> 1, event_id |-> 11, name |-> <<"Sam">>],
                   [id |-> 2, event_id |-> 11, name |-> <<"Ana">>]}
    ELSE {}

PaletteStore(ids) ==
    [entries  |-> {PaletteEntry(i) : i \in ids},
     metadata |-> UNION {PaletteMetadata(i) : i \in ids},
     events   |-> UNION {PaletteEvents(i) : i \in ids},
     people   |-> UNION {PalettePeople(i) : i \in ids}]

PaletteStores == {PaletteStore(ids) : ids \in SUBSET PaletteIds}

\* build_context_window(start, end): the query, then the payload.
BuildWindow(start, end) ==
    /\ \E entries \in list_entries_between(store, start, end) :
          window' = Some([start |-> start, end |-> end,
                          payload |-> build_context_window(entries, start, end)])
    /\ UNCHANGED <<store, chat, dispatch, ingest, whoop, cleanup, oauth, batch>>

(***************************************************************************)
(* ingest_journal (ingest_journal.py lines 50-110): one call after         *)
(* another, as cli and ingest_directory make them.                         *)
(***************************************************************************)
NoIngest == [pc |-> "idle"]

RowIds(db) ==
    {r.id : r \in db.entries} \cup {r.id : r \in db.metadata}
    \cup {r.id : r \in db.events} \cup {r.id : r \in db.people}

\* An ingest_journal that skips an unchanged file whatever the flag says.
IngestAlwaysSkipping(path, entry_date, skip_if_unchanged, text, outcome) ==
    LET file_hash == _content_hash(text)
        found     == ExistingFor(store, path)
        existing  == IF found = {} THEN None ELSE Some(CHOOSE e \in found : TRUE)
        call      == [path |-> path, entry_date |-> entry_date,
                      skip_if_unchanged |-> skip_if_unchanged, text |-> text,
                      file_hash |-> file_hash,
                      existing |-> IF IsNone(existing) THEN None
                                   ELSE Some(Get(existing).id)]
        early(result) ==
            /\ ingest' = [pc |-> "done", call |-> call, outcome |-> None,
                          result |-> result]
            /\ UNCHANGED store
    IN  /\ IF Cardinality(found) > 1
           THEN early(Raised(MultipleResultsError))
           ELSE IF /\ ~IsNone(existing)
                   /\ Get(existing).file_hash = file_hash
           THEN early(Returned(FALSE))
           ELSE LET done == get_session(store,
                                IngestBlock(store, call,
                                            extract_journal_metadata(outcome)))
                IN  /\ \A i \in RowIds(done.store) : i <= MaxId
                    /\ store' = done.store
                    /\ ingest' = [pc |-> "done", call |-> call,
                                  outcome |-> Some(outcome), result |-> done.result]
        /\ UNCHANGED <<chat, dispatch, window, whoop, cleanup, oauth, batch>>

\* ingest_journal(path, entry_date, skip_if_unchanged) on a file holding
\* text, the extraction backend answering with outcome if it is asked.
IngestJournal(path, entry_date, skip_if_unchanged, text, outcome) ==
    LET file_hash == _content_hash(text)
        found     == ExistingFor(store, path)
        existing  == IF found = {} THEN None ELSE Some(CHOOSE e \in found : TRUE)
        call      == [path |-> path, entry_date |-> entry_date,
                      skip_if_unchanged |-> skip_if_unchanged, text |-> text,
                      file_hash |-> file_hash,
                      existing |-> IF IsNone(existing) THEN None
                                   ELSE Some(Get(existing).id)]
        early(result) ==
            /\ ingest' = [pc |-> "done", call |-> call, outcome |-> None,
                          result |-> result]
            /\ UNCHANGED store
    IN  /\ IF Cardinality(found) > 1
           THEN early(Raised(MultipleResultsError))
           ELSE IF /\ ~IsNone(existing)
                   /\ skip_if_unchanged
                   /\ Get(existing).file_hash = file_hash
           THEN early(Returned(FALSE))
           ELSE LET done == get_session(store,
                                IngestBlock(store, call,
                                            extract_journal_metadata(outcome)))
                IN  /\ \A i \in RowIds(done.store) : i <= MaxId
                    /\ store' = done.store
                    /\ ingest' = [pc |-> "done", call |-> call,
                                  outcome |-> Some(outcome), result |-> done.result]
        /\ UNCHANGED <<chat, dispatch, window, whoop, cleanup, oauth, batch>>

(***************************************************************************)
(* ingest_journal with extract_journal_metadata returning a dict of any    *)
(* content the model may have written: the values of the metrics, and the  *)
(* category, effect on mood and people of an event.                        *)
(***************************************************************************)
MoodValues == {JNull, JInt(7), JFloat(650), JStr(<<"8">>), JStr(<<"n/a">>), JInf}
SleepValues == {JNull, JInt(8), JFloat(650), JStr(<<"7.5">>), JStr(<<"n/a">>)}
MetricsValues ==
    {None} \cup {Some([mood_score |-> m, energy_score |-> JInt(6),
                       stress_score |-> JNull, sleep_hours |-> h]) :
                    m \in MoodValues, h \in SleepValues}
Categories == {None, Some(<<>>), Some(<<SP>>), Some(<<"work">>), Some(<<"work", SP>>)}
Effects == {JNull, JInt(-1), JFloat(150), JStr(<<"n/a">>)}
PeopleValues ==
    {None, Some(<<>>), Some(<< <<"Sam">>, <<>>, <<"Ana", SP>> >>),
     Some(<< <<SP>>, <<"Sam">> >>)}
EventPayloads ==
    [description : {Some(<<"Lunch">>)}, category : Categories,
     effect_on_mood : Effects, people : PeopleValues]
PlainEvent ==
    [description |-> Some(<<"Evening run">>), category |-> Some(<<"health">>),
     effect_on_mood |-> JInt(1), people |-> None]
EventLists ==
    {None, Some(<<>>)}
    \cup {Some(<<e>>) : e \in EventPayloads}
    \cup {Some(<<e, PlainEvent>>) :
             e \in {x \in EventPayloads : x.category = None /\ x.effect_on_mood = JNull}}
\* The dicts: each value of the metrics with one event list, and each event
\* list with one value of the metrics.
Payloads ==
    {[kind |-> "dict", summary |-> Some(<<"Good day">>), metrics |-> m,
      events |-> Some(<<PlainEvent>>)] : m \in MetricsValues}
    \cup {[kind |-> "dict", summary |-> Some(<<"Good day">>), metrics |-> None,
           events |-> v] : v \in EventLists}

\* ingest_journal(path, entry_date, skip_if_unchanged) on a file holding
\* text, extract_journal_metadata returning metadata if it is called.
IngestMetadata(path, entry_date, skip_if_unchanged, text, metadata) ==
    LET file_hash == _content_hash(text)
        found     == ExistingFor(store, path)
        existing  == IF found = {} THEN None ELSE Some(CHOOSE e \in found : TRUE)
        call      == [path |-> path, entry_date |-> entry_date,
                      skip_if_unchanged |-> skip_if_unchanged, text |-> text,
                      file_hash |-> file_hash,
                      existing |-> IF IsNone(existing) THEN None
                                   ELSE Some(Get(existing).id)]
        early(result) ==
            /\ ingest' = [pc |-> "done", call |-> call, metadata |-> None,
                          result |-> result]
            /\ UNCHANGED store
    IN  /\ ingest = NoIngest
        /\ IF Cardinality(found) > 1
           THEN early(Raised(MultipleResultsError))
           ELSE IF /\ ~IsNone(existing)
                   /\ skip_if_unchanged
                   /\ Get(existing).file_hash = file_hash
           THEN early(Returned(FALSE))
           ELSE LET done == get_session(store,
                                IngestBlock(store, call, Returned(metadata)))
                IN  /\ \A i \in RowIds(done.store) : i <= MaxId
                    /\ store' = done.store
                    /\ ingest' = [pc |-> "done", call |-> call,
                                  metadata |-> Some(metadata), result |-> done.result]
        /\ UNCHANGED <<chat, dispatch, window, whoop, cleanup, oauth, batch>>

(***************************************************************************)
(* The WHOOP data endpoints (api/whoop_data.py); a behaviour follows one   *)
(* request.                                                                *)
(***************************************************************************)
AccessTokens == {None, Some("access")}
DateArgs == {None} \cup {Some(d) : d \in Dates}
Limits == {1, 25}

WhoopIdle ==
    [pc |-> "idle", endpoint |-> "none", access_token |-> None,
     start_date |-> None, end_date |-> None, loop |-> 0,
     sent |-> <<>>, received |-> <<>>,
     pages |-> [k \in 1..4 |-> <<>>], collected |-> [k \in 1..4 |-> <<>>],
     results |-> [k \in 1..4 |-> None], responses |-> <<>>]

\* GET /api/whoop/data/cycles, /sleep, /recovery, /workouts.
WhoopList(kind, access_token, start_date, end_date, limit, outcome) ==
    /\ whoop = WhoopIdle
    /\ outcome \in WhoopOutcomes(ListPath(kind), None)
    /\ LET called == [WhoopIdle EXCEPT !.pc = "done", !.endpoint = kind,
                                       !.access_token = access_token,
                                       !.start_date = start_date,
                                       !.end_date = end_date]
       IN  whoop' =
              IF IsNone(access_token)
              THEN [called EXCEPT !.responses = <<NotAuthenticated>>]
              ELSE [called EXCEPT
                       !.sent = << [path   |-> ListPath(kind),
                                    params |-> ListParams(start_date, end_date,
                                                          limit, None)] >>,
                       !.received = <<outcome>>,
                       !.responses = <<ListResponse(get_records(_get(outcome)))>>]
    /\ UNCHANGED <<store, chat, dispatch, window, ingest, cleanup, oauth, batch>>

\* GET /api/whoop/data/profile: the profile read, then the body read.
WhoopProfile(access_token, profile_outcome, body_outcome) ==
    /\ whoop = WhoopIdle
    /\ profile_outcome \in WhoopOutcomes(ProfilePath, None)
    /\ body_outcome \in WhoopOutcomes(BodyPath, None)
    /\ LET called  == [WhoopIdle EXCEPT !.pc = "done", !.endpoint = "profile",
                                        !.access_token = access_token]
           profile == get_object(_get(profile_outcome))
           body    == get_object(_get(body_outcome))
       IN  whoop' =
              IF IsNone(access_token)
              THEN [called EXCEPT !.responses = <<NotAuthenticated>>]
              ELSE IF ~profile.ok
              THEN [called EXCEPT
                       !.sent = << [path |-> ProfilePath, params |-> None] >>,
                       !.received = <<profile_outcome>>,
                       !.responses = <<ProfileResponse(profile, body)>>]
              ELSE [called EXCEPT
                       !.sent = << [path |-> ProfilePath, params |-> None],
                                   [path |-> BodyPath, params |-> None] >>,
                       !.received = <<profile_outcome, body_outcome>>,
                       !.responses = <<ProfileResponse(profile, body)>>]
    /\ UNCHANGED <<store, chat, dispatch, window, ingest, cleanup, oauth, batch>>

\* GET /api/whoop/data/summary, lines 225-231: the range check and the client.
SummaryBegin(access_token, start_date, end_date) ==
    /\ whoop = WhoopIdle
    /\ LET called == [WhoopIdle EXCEPT !.endpoint = "summary",
                                       !.access_token = access_token,
                                       !.start_date = Some(start_date),
                                       !.end_date = Some(end_date)]
       IN  whoop' =
              IF start_date > end_date
              THEN [called EXCEPT !.pc = "done", !.responses = <<SummaryBadRange>>]
              ELSE IF IsNone(access_token)
              THEN [called EXCEPT !.pc = "done", !.responses = <<NotAuthenticated>>]
              ELSE [called EXCEPT !.pc = "paging", !.loop = 1]
    /\ UNCHANGED <<store, chat, dispatch, window, ingest, cleanup, oauth, batch>>

\* Pages with a continuation token served so far in the request.
TokenPages ==
    Cardinality({<<k, i>> \in (1..4) \X (1..(MaxPages + 1)) :
                    i <= Len(whoop.pages[k]) /\ Truthy(whoop.pages[k][i].next_token)})

\* One iteration of the loop of get_all_cycles, get_all_sleep,
\* get_all_recovery or get_all_workouts (whoop_client.py lines 383-464)
\* inside get_health_summary (lines 233-248): the GET, the extend, the test
\* of the token; the failure, the next loop or the response.
SummaryFetch(outcome) ==
    /\ whoop.pc = "paging"
    /\ LET k          == whoop.loop
           path       == ListPath(Kinds[k])
           next_token == NextRequestToken(whoop.pages[k])
           request    == [path   |-> path,
                          params |-> ListParams(whoop.start_date, whoop.end_date,
                                                25, next_token)]
           got        == get_records(_get(outcome))
           asked      == [whoop EXCEPT !.sent = Append(@, request),
                                       !.received = Append(@, outcome)]
       IN  /\ outcome \in WhoopOutcomes(path, request.params.nextToken)
           /\ (got.ok /\ Truthy(got.value.next_token)) => TokenPages < MaxPages
           /\ whoop' =
                 IF ~got.ok
                 THEN [asked EXCEPT !.pc = "done",
                                    !.responses = << [status |-> 500,
                                                      detail |-> got.error] >>]
                 ELSE
                 LET all  == whoop.collected[k] \o got.value.records
                     paged == [asked EXCEPT !.pages[k] = Append(@, got.value),
                                            !.collected[k] = all]
                 IN  IF ~LoopDone(got.value.next_token) THEN paged
                     ELSE IF k < 4
                     THEN [paged EXCEPT !.results[k] = Some(all), !.loop = k + 1]
                     ELSE [paged EXCEPT
                              !.results[k] = Some(all),
                              !.pc = "done",
                              !.responses =
                                 << [status     |-> 200,
                                     start_date |-> Get(whoop.start_date),
                                     end_date   |-> Get(whoop.end_date),
                                     cycles     |-> Get(whoop.results[1]),
                                     sleep      |-> Get(whoop.results[2]),
                                     recovery   |-> Get(whoop.results[3]),
                                     workouts   |-> all] >>]
    /\ UNCHANGED <<store, chat, dispatch, window, ingest, cleanup, oauth, batch>>

(***************************************************************************)
(* Specifications.                                                         *)
(***************************************************************************)
(***************************************************************************)
(* The WHOOP OAuth endpoints (api/whoop_oauth.py).  _token_storage is the  *)
(* module's dict; a key that is absent and a key holding None read alike   *)
(* through .get, and are None here.  The callback and the refresh await    *)
(* the vendor's token endpoint, so each is two steps, and the other        *)
(* handlers run between them; a handler without an await is one step.      *)
(***************************************************************************)
\* config.py line 19: WHOOP_CLIENT_ID, "" when the environment has none.
ClientIds == {"", "client-id"}

\* The values of _generate_state (lines 41-43), and the state parameters a
\* callback may carry.
OAuthStates == {"s1", "s2"}
StateParams == OAuthStates \cup {"forged"}

\* line 25: _token_storage = {}
EmptyStorage ==
    [oauth_state |-> None, access_token |-> None, refresh_token |-> None,
     expires_in |-> None, scope |-> None]

\* The JSON bodies of the vendor's token endpoint: the keys the handlers
\* read with tokens.get, None for a key the body does not have.
TokenBodies ==
    {[access_token |-> Some("a1"), refresh_token |-> Some("r1"),
      expires_in |-> Some(3600), scope |-> Some("offline read:profile")],
     [access_token |-> Some("a2"), refresh_token |-> None,
      expires_in |-> Some(3600), scope |-> Some("read:profile")],
     [access_token |-> None, refresh_token |-> None,
      expires_in |-> None, scope |-> Some("read:profile")]}

\* What the token endpoint may do with a POST: not answer, refuse, or answer
\* 200 with a body.
VendorOutcomes ==
    {[kind |-> "unreachable"]}
    \cup {[kind |-> "response", status |-> c, text |-> "invalid_grant"] : c \in {400, 401}}
    \cup {[kind |-> "response", status |-> 200, json |-> b] : b \in TokenBodies}

\* The requests awaiting the token endpoint.
Flights == {1, 2}
NoFlight == [kind |-> "none"]

OAuthStart(client_id) ==
    [client_id |-> client_id, storage |-> EmptyStorage,
     flight |-> [f \in Flights |-> NoFlight],
     last |-> [endpoint |-> "none"]]

\* Lines 120-123 and 165-168: the four token fields taken from the body.
StoreTokens(storage, tokens) ==
    [storage EXCEPT !.access_token = tokens.access_token,
                    !.refresh_token = tokens.refresh_token,
                    !.expires_in = tokens.expires_in,
                    !.scope = tokens.scope]

\* GET /api/whoop/login (lines 46-72).
Login(state) ==
    /\ oauth' =
          IF oauth.client_id = ""
          THEN [oauth EXCEPT !.last = [endpoint |-> "login", status |-> 500]]
          ELSE [oauth EXCEPT !.storage.oauth_state = Some(state),
                             !.last = [endpoint |-> "login", status |-> 307,
                                       state |-> state]]
    /\ UNCHANGED <<store, chat, dispatch, window, ingest, whoop, cleanup, batch>>

\* A callback that does not look at the state parameter.
CallbackUnchecked(f, state) ==
    /\ oauth.flight[f] = NoFlight
    /\ oauth' = [oauth EXCEPT !.storage.oauth_state = None,
                              !.flight[f] = [kind |-> "callback", state |-> state],
                              !.last = [endpoint |-> "callback", status |-> 0,
                                        state |-> state]]
    /\ UNCHANGED <<store, chat, dispatch, window, ingest, whoop, cleanup, batch>>

\* GET /api/whoop/callback, lines 84-109: the state check, the pop of the
\* stored state, and the POST to the token endpoint, which is awaited.
CallbackBegin(f, state) ==
    /\ oauth.flight[f] = NoFlight
    /\ LET stored_state == oauth.storage.oauth_state
       IN  oauth' =
              IF IsNone(stored_state) \/ state # Get(stored_state)
              THEN [oauth EXCEPT !.last = [endpoint |-> "callback", status |-> 400,
                                           state |-> state]]
              ELSE [oauth EXCEPT !.storage.oauth_state = None,
                                 !.flight[f] = [kind |-> "callback", state |-> state],
                                 !.last = [endpoint |-> "callback", status |-> 0,
                                           state |-> state]]
    /\ UNCHANGED <<store, chat, dispatch, window, ingest, whoop, cleanup, batch>>

\* Lines 111-126: the token endpoint's answer; the tokens are stored when it
\* is 200.  An unanswered POST raises in httpx and ends in a 500.
CallbackEnd(f, outcome) ==
    /\ oauth.flight[f].kind = "callback"
    /\ LET state == oauth.flight[f].state
           ended == [oauth EXCEPT !.flight[f] = NoFlight]
       IN  oauth' =
              IF outcome.kind = "unreachable"
              THEN [ended EXCEPT !.last = [endpoint |-> "callback", status |-> 500,
                                           state |-> state]]
              ELSE IF outcome.status # 200
              THEN [ended EXCEPT !.last = [endpoint |-> "callback",
                                           status |-> outcome.status, state |-> state]]
              ELSE [ended EXCEPT !.storage = StoreTokens(@, outcome.json),
                                 !.last = [endpoint |-> "callback", status |-> 307,
                                           state |-> state]]
    /\ UNCHANGED <<store, chat, dispatch, window, ingest, whoop, cleanup, batch>>

\* A refresh that stores what the vendor sent whatever the status.
RefreshEndAlwaysStoring(f, outcome) ==
    /\ oauth.flight[f].kind = "refresh"
    /\ LET ended == [oauth EXCEPT !.flight[f] = NoFlight]
       IN  oauth' =
              IF outcome.kind = "unreachable"
              THEN [ended EXCEPT !.last = [endpoint |-> "refresh", status |-> 500]]
              ELSE IF outcome.status # 200
              THEN [ended EXCEPT !.storage = StoreTokens(@, EmptyStorage),
                                 !.last = [endpoint |-> "refresh",
                                           status |-> outcome.status]]
              ELSE [ended EXCEPT !.storage = StoreTokens(@, outcome.json),
                                 !.last = [endpoint |-> "refresh", status |-> 200]]
    /\ UNCHANGED <<store, chat, dispatch, window, ingest, whoop, cleanup, batch>>

\* POST /api/whoop/refresh, lines 134-154: the test of the stored refresh
\* token and the POST to the token endpoint, which is awaited.
RefreshBegin(f) ==
    /\ oauth.flight[f] = NoFlight
    /\ oauth' =
          IF IsNone(oauth.storage.refresh_token)
          THEN [oauth EXCEPT !.last = [endpoint |-> "refresh", status |-> 401]]
          ELSE [oauth EXCEPT !.flight[f] =
                                [kind |-> "refresh",
                                 refresh_token |-> Get(oauth.storage.refresh_token)],
                             !.last = [endpoint |-> "refresh", status |-> 0]]
    /\ UNCHANGED <<store, chat, dispatch, window, ingest, whoop, cleanup, batch>>

\* Lines 156-170: the token endpoint's answer to the refresh.
RefreshEnd(f, outcome) ==
    /\ oauth.flight[f].kind = "refresh"
    /\ LET ended == [oauth EXCEPT !.flight[f] = NoFlight]
       IN  oauth' =
              IF outcome.kind = "unreachable"
              THEN [ended EXCEPT !.last = [endpoint |-> "refresh", status |-> 500]]
              ELSE IF outcome.status # 200
              THEN [ended EXCEPT !.last = [endpoint |-> "refresh",
                                           status |-> outcome.status]]
              ELSE [ended EXCEPT !.storage = StoreTokens(@, outcome.json),
                                 !.last = [endpoint |-> "refresh", status |-> 200]]
    /\ UNCHANGED <<store, chat, dispatch, window, ingest, whoop, cleanup, batch>>

\* GET /api/whoop/status (lines 173-182).
TokenStatus ==
    /\ LET access_token == oauth.storage.access_token
       IN  oauth' = [oauth EXCEPT !.last =
                        [endpoint |-> "status", status |-> 200,
                         authenticated |-> ~IsNone(access_token),
                         scopes |-> IF ~IsNone(access_token) THEN oauth.storage.scope
                                    ELSE None]]
    /\ UNCHANGED <<store, chat, dispatch, window, ingest, whoop, cleanup, batch>>

\* A logout that removes the two tokens only.
LogoutTokensOnly ==
    /\ oauth' = [oauth EXCEPT !.storage.access_token = None,
                              !.storage.refresh_token = None,
                              !.last = [endpoint |-> "logout", status |-> 200]]
    /\ UNCHANGED <<store, chat, dispatch, window, ingest, whoop, cleanup, batch>>

\* POST /api/whoop/logout (lines 185-191): _token_storage.clear().
Logout ==
    /\ oauth' = [oauth EXCEPT !.storage = EmptyStorage,
                              !.last = [endpoint |-> "logout", status |-> 200]]
    /\ UNCHANGED <<store, chat, dispatch, window, ingest, whoop, cleanup, batch>>

\* get_access_token (lines 194-198).
get_access_token == oauth.storage.access_token

(***************************************************************************)
(* ingestion/ingest_directory.py: the batch ingest.  It imports            *)
(* ingest_journal and _infer_date_from_filename, the functions of          *)
(* ingest_journal.py.                                                      *)
(***************************************************************************)
\* The Markdown files a notes directory may hold, by name, in the order of
\* sorted(): a dated note, a second one, a name whose digits are no calendar
\* date, and a name without a date.
FileNames == <<"2024-02-01.md", "2024-02-02.md", "2024-02-30.md", "notes.md">>

InvalidDateError == <<"day is out of range for month">>

\* ingest_journal.py lines 25-29: no match of DATE_PATTERN gives None; a
\* match is handed to date.fromisoformat, which raises ValueError when the
\* digits are no date.
_infer_date_from_filename(name) ==
    CASE name = "2024-02-01.md" -> Returned(Some(1))
      [] name = "2024-02-02.md" -> Returned(Some(2))
      [] name = "2024-02-30.md" -> Raised(InvalidDateError)
      [] OTHER                  -> Returned(None)

\* ingest_journal (ingest_journal.py lines 50-110) as a function of the
\* store: the store it leaves and what it returns or raises.
ingest_journal(db, path, entry_date, skip_if_unchanged, text, outcome) ==
    LET file_hash == _content_hash(text)
        found     == ExistingFor(db, path)
        existing  == IF found = {} THEN None ELSE Some(CHOOSE e \in found : TRUE)
        call      == [path |-> path, entry_date |-> entry_date,
                      skip_if_unchanged |-> skip_if_unchanged, text |-> text,
                      file_hash |-> file_hash,
                      existing |-> IF IsNone(existing) THEN None
                                   ELSE Some(Get(existing).id)]
    IN  IF Cardinality(found) > 1
        THEN [store |-> db, result |-> Raised(MultipleResultsError)]
        ELSE IF /\ ~IsNone(existing)
                /\ skip_if_unchanged
                /\ Get(existing).file_hash = file_hash
        THEN [store |-> db, result |-> Returned(FALSE)]
        ELSE get_session(db, IngestBlock(db, call, extract_journal_metadata(outcome)))

NoBatch == [pc |-> "idle"]

\* Lines 13-25: the sorted list of the files, the return when there is
\* none, the counters.
IngestDirectory(files, skip_if_unchanged) ==
    /\ batch = NoBatch
    /\ LET paths == SelectSeq(FileNames, LAMBDA name : name \in files)
       IN  batch' = [pc |-> IF paths = <<>> THEN "done" ELSE "loop",
                     paths |-> paths, skip_if_unchanged |-> skip_if_unchanged,
                     index |-> 1, processed |-> 0, skipped |-> 0, errors |-> 0,
                     taken |-> <<>>, failed |-> <<>>, summary |-> None,
                     raised |-> None]
    /\ UNCHANGED <<store, chat, dispatch, window, ingest, whoop, cleanup, oauth>>

\* Lines 27-45: one turn of the loop over the files, the file holding text
\* and the extraction backend answering with outcome if it is asked; after
\* the last file the summary is printed.  _infer_date_from_filename is
\* called before the try block: what it raises leaves ingest_directory.
BatchFile(text, outcome) ==
    /\ batch.pc = "loop"
    /\ LET name       == batch.paths[batch.index]
           path       == "notes/" \o name
           entry_date == _infer_date_from_filename(name)
           last       == batch.index = Len(batch.paths)
           taken      == [batch EXCEPT !.taken = Append(@, name), !.index = @ + 1]
           counted(b) ==
               IF ~last THEN b
               ELSE [b EXCEPT !.pc = "done",
                              !.summary = Some([processed |-> b.processed,
                                                skipped |-> b.skipped,
                                                errors |-> b.errors])]
       IN  IF ~entry_date.ok
           THEN /\ batch' = [taken EXCEPT !.pc = "raised",
                                          !.raised = Some(entry_date.error)]
                /\ UNCHANGED store
           ELSE IF IsNone(entry_date.value)
           THEN /\ batch' = counted([taken EXCEPT !.skipped = @ + 1])
                /\ UNCHANGED store
           ELSE LET done == ingest_journal(store, path, Get(entry_date.value),
                                           batch.skip_if_unchanged, text, outcome)
                IN  /\ store' = done.store
                    /\ batch' = counted(
                          IF ~done.result.ok
                          THEN [taken EXCEPT !.errors = @ + 1, !.failed = Append(@, name)]
                          ELSE IF done.result.value
                          THEN [taken EXCEPT !.processed = @ + 1]
                          ELSE [taken EXCEPT !.skipped = @ + 1])
    /\ UNCHANGED <<chat, dispatch, window, ingest, whoop, cleanup, oauth>>

(***************************************************************************)
(* _clean_json_response applied to a model reply, and to its own result.   *)
(***************************************************************************)
\* The tokens replies are made of here: the fence, the language tag, a line
\* break, the braces and a word.
RawTokens == {FENCE, "json", NL, "{", "}", "x"}

\* The replies cleaned: every text of at most MaxRaw tokens, and the replies
\* the extraction of the model receives.
RawTexts == SeqsUpTo(RawTokens, MaxRaw) \cup RawResponses

NoCleanup == [pc |-> "idle", raw |-> <<>>, cleaned |-> None, again |-> None]

\* cleaned = _clean_json_response(raw_text)
Clean ==
    /\ cleanup.pc = "raw"
    /\ cleanup' = [cleanup EXCEPT !.pc = "cleaned",
                                  !.cleaned = Some(_clean_json_response(cleanup.raw))]
    /\ UNCHANGED <<store, chat, dispatch, window, ingest, whoop, oauth, batch>>

\* _clean_json_response(cleaned)
CleanAgain ==
    /\ cleanup.pc = "cleaned"
    /\ cleanup' = [cleanup EXCEPT !.pc = "again",
                                  !.again = Some(_clean_json_response(Get(cleanup.cleaned)))]
    /\ UNCHANGED <<store, chat, dispatch, window, ingest, whoop, oauth, batch>>

Quiet ==
    /\ chat = [r \in ChatIds |-> ChatIdle]
    /\ dispatch = NoDispatch
    /\ window = None
    /\ ingest = NoIngest
    /\ whoop = WhoopIdle
    /\ cleanup = NoCleanup
    /\ oauth = OAuthStart("client-id")
    /\ batch = NoBatch

\* The chat endpoint serving a request over a stored journal.
Init == store \in SeedStores /\ Quiet

Next ==
    \E r \in {1} :
       \/ \E request \in ChatRequests : ChatBegin(r, request)
       \/ ChatBuildContext(r)
       \/ \E outcome \in BackendOutcomes : ChatCallModel(r, outcome)

Spec == Init /\ [][Next]_vars

\* Two chat requests served at once: uvicorn runs the handler of the one
\* while the other is in flight. The requests come without history or with
\* one user/assistant exchange.
PairHistories ==
    {<<>>, <<[role |-> "user", content |-> <<"a">>],
             [role |-> "assistant", content |-> <<"b">>]>>}

PairRequests == {q \in ChatRequests : q.history \in PairHistories}

NextPair ==
    \E r \in ChatIds :
       \/ \E request \in PairRequests : ChatBegin(r, request)
       \/ ChatBuildContext(r)
       \/ \E outcome \in BackendOutcomes : ChatCallModel(r, outcome)

SpecPair == Init /\ [][NextPair]_vars

\* Direct calls of the two variants of chat_with_journal_context.
NextDispatch ==
    \E call \in DispatchCalls, outcome \in BackendOutcomes :
       \/ DispatchOllama(call, outcome)
       \/ DispatchGemini(call, outcome)

SpecDispatch == Init /\ [][NextDispatch]_vars

\* Context windows over the stores of the palette.
InitContext == store \in PaletteStores /\ Quiet

NextContext == \E start \in Dates, end \in Dates : BuildWindow(start, end)

SpecContext == InitContext /\ [][NextContext]_vars

\* Sequences of ingest_journal calls over an initially empty store.
InitIngest == store = EmptyStore /\ Quiet

NextIngest ==
    \E path \in Paths, entry_date \in Dates, skip_if_unchanged \in BOOLEAN,
       text \in Texts, outcome \in ExtractionOutcomes :
       IngestJournal(path, entry_date, skip_if_unchanged, text, outcome)

SpecIngest == InitIngest /\ [][NextIngest]_vars

\* One ingest_journal call over a stored journal, for each dict the
\* extraction may return.
NextFields ==
    \E path \in Paths, entry_date \in {1}, skip_if_unchanged \in BOOLEAN,
       text \in Texts, metadata \in Payloads :
       IngestMetadata(path, entry_date, skip_if_unchanged, text, metadata)

SpecFields == Init /\ [][NextFields]_vars

\* Requests to the WHOOP data endpoints.  While a pagination loop runs the
\* API goes on answering, and in the end it serves a page without a token.
AllOutcomes ==
    UNION {WhoopOutcomes(path, t) :
              path \in {ListPath(Kinds[k]) : k \in 1..4} \cup {ProfilePath, BodyPath},
              t \in {None} \cup {Some(x) : x \in WhoopTokens}}

LastPageArrives ==
    \E outcome \in AllOutcomes :
       /\ outcome.kind = "response"
       /\ outcome.status = 200
       /\ ~Truthy(outcome.json.next_token)
       /\ SummaryFetch(outcome)

NextWhoop ==
    \/ \E kind \in {Kinds[k] : k \in 1..4}, access_token \in AccessTokens,
          start_date \in DateArgs, end_date \in DateArgs, limit \in Limits :
          \E outcome \in WhoopOutcomes(ListPath(kind), None) :
             WhoopList(kind, access_token, start_date, end_date, limit, outcome)
    \/ \E access_token \in AccessTokens,
          profile_outcome \in WhoopOutcomes(ProfilePath, None),
          body_outcome \in WhoopOutcomes(BodyPath, None) :
          WhoopProfile(access_token, profile_outcome, body_outcome)
    \/ \E access_token \in AccessTokens, start_date \in Dates, end_date \in Dates :
          SummaryBegin(access_token, start_date, end_date)
    \/ \E outcome \in AllOutcomes : SummaryFetch(outcome)

InitWhoop == store = EmptyStore /\ Quiet

SpecWhoop == InitWhoop /\ [][NextWhoop]_vars /\ WF_vars(LastPageArrives)

\* The OAuth endpoints and one request to a data endpoint, in any order.
\* The WHOOP API answers the data request with a last page or not at all.
DataOutcomes ==
    {o \in AllOutcomes :
        o.kind = "unreachable" \/ (o.status = 200 /\ ~Truthy(o.json.next_token))}

InitOAuth ==
    /\ store = EmptyStore
    /\ chat = [r \in ChatIds |-> ChatIdle]
    /\ dispatch = NoDispatch
    /\ window = None
    /\ ingest = NoIngest
    /\ whoop = WhoopIdle
    /\ cleanup = NoCleanup
    /\ oauth \in {OAuthStart(client_id) : client_id \in ClientIds}
    /\ batch = NoBatch

NextOAuth ==
    \/ \E state \in OAuthStates : Login(state)
    \/ \E f \in Flights, state \in StateParams : CallbackBegin(f, state)
    \/ \E f \in Flights, outcome \in VendorOutcomes : CallbackEnd(f, outcome)
    \/ \E f \in Flights : RefreshBegin(f)
    \/ \E f \in Flights, outcome \in VendorOutcomes : RefreshEnd(f, outcome)
    \/ TokenStatus
    \/ Logout
    \/ \E kind \in {Kinds[k] : k \in 1..4}, outcome \in DataOutcomes :
          WhoopList(kind, get_access_token, None, None, 25, outcome)
    \/ \E profile_outcome \in DataOutcomes, body_outcome \in DataOutcomes :
          WhoopProfile(get_access_token, profile_outcome, body_outcome)
    \/ \E start_date \in {1, MaxDate}, end_date \in {1} :
          SummaryBegin(get_access_token, start_date, end_date)
    \/ \E outcome \in DataOutcomes : SummaryFetch(outcome)

SpecOAuth == InitOAuth /\ [][NextOAuth]_vars

\* One batch ingest over an empty journal or over one in which the first
\* note is stored.
BatchSeed ==
    ingest_journal(EmptyStore, "notes/2024-02-01.md", 1, TRUE, <<"walked">>,
                   [kind |-> "reply",
                    content |-> Some(<<FENCE, "json", NL, "{", "full", "}", NL, FENCE>>)]).store

InitBatch ==
    /\ store \in {EmptyStore, BatchSeed}
    /\ chat = [r \in ChatIds |-> ChatIdle]
    /\ dispatch = NoDispatch
    /\ window = None
    /\ ingest = NoIngest
    /\ whoop = WhoopIdle
    /\ cleanup = NoCleanup
    /\ oauth = OAuthStart("client-id")
    /\ batch = NoBatch

NextBatch ==
    \/ \E files \in SUBSET {FileNames[i] : i \in 1..Len(FileNames)},
          skip_if_unchanged \in BOOLEAN :
          IngestDirectory(files, skip_if_unchanged)
    \/ \E text \in Texts, outcome \in ExtractionOutcomes : BatchFile(text, outcome)

SpecBatch == InitBatch /\ [][NextBatch]_vars

\* The cleaner applied to a reply and then to what it returned.
InitClean ==
    /\ store = EmptyStore
    /\ chat = [r \in ChatIds |-> ChatIdle]
    /\ dispatch = NoDispatch
    /\ window = None
    /\ ingest = NoIngest
    /\ whoop = WhoopIdle
    /\ cleanup \in {[pc |-> "raw", raw |-> t, cleaned |-> None, again |-> None] :
                       t \in RawTexts}
    /\ oauth = OAuthStart("client-id")
    /\ batch = NoBatch

NextClean == Clean \/ CleanAgain

SpecClean == InitClean /\ [][NextClean]_vars

(***************************************************************************)
(* Properties of the chat endpoint (specification Spec).                   *)
(***************************************************************************)
Started(r) == chat[r].pc # "idle"

\* C1: a chat request whose start_date is after its end_date is answered
\* with the 400 response and nothing else, and for that request neither the
\* persistence query (the context build) nor the backend call is executed.
C1_BadRangeRejected ==
    \A r \in ChatIds :
       (Started(r) /\ chat[r].request.start_date > chat[r].request.end_date) =>
          /\ chat[r].pc = "done"
          /\ chat[r].responses =
                << [status |-> 400,
                    detail |-> <<"Start date must be on or before end date">>] >>
          /\ chat[r].db_queries = 0
          /\ chat[r].llm_calls = 0
          /\ IsNone(chat[r].context)
          /\ IsNone(chat[r].backend)
          /\ chat[r].sent = <<>>

C1_Witness ==
    \E r \in ChatIds :
       /\ chat[r].pc = "done"
       /\ chat[r].request.start_date > chat[r].request.end_date
       /\ Len(chat[r].responses) = 1
       /\ chat[r].request.history # <<>>

\* The even indices i (counted from 0) of history whose message is a user
\* message followed, inside the list, by an assistant message.
PairedIndices(history) ==
    {i \in 0..(Len(history) - 2) :
        /\ i % 2 = 0
        /\ history[i + 1].role = "user"
        /\ history[i + 2].role = "assistant"}

BackendRaised(r) ==
    /\ chat[r].pc = "done"
    /\ ~IsNone(chat[r].backend)
    /\ Get(chat[r].backend).kind = "raise"

\* C9: when the backend call of a chat request fails, the caller receives
\* exactly one response, a 500 whose detail carries the underlying error
\* message; no success response is produced and the backend is called once.
C9_BackendFailureIs500 ==
    \A r \in ChatIds :
       BackendRaised(r) =>
          /\ Len(chat[r].responses) = 1
          /\ chat[r].responses[1].status = 500
          /\ chat[r].responses[1].detail =
                <<"Failed to get response from assistant: ">>
                \o Get(chat[r].backend).error
          /\ chat[r].llm_calls = 1

C9_Witness ==
    \E r \in ChatIds :
       /\ BackendRaised(r)
       /\ chat[r].responses # <<>>
       /\ chat[r].db_queries = 1

(***************************************************************************)
(* Properties of chat_with_journal_context (specification SpecDispatch).   *)
(***************************************************************************)
\* The lines of a text: the runs of tokens between line breaks.
RECURSIVE SplitLines(_)
SplitLines(t) ==
    LET breaks == {i \in 1..Len(t) : t[i] = NL}
    IN  IF breaks = {} THEN <<t>>
        ELSE LET b == CHOOSE i \in breaks : \A j \in breaks : i <= j
             IN  <<SubSeq(t, 1, b - 1)>> \o SplitLines(SubSeq(t, b + 1, Len(t)))

NonBlank(lines) == SelectSeq(lines, LAMBDA l : l # <<>>)

\* The call reached the backend.
Dispatched == dispatch.variant # "none" /\ ~IsNone(dispatch.backend)

\* The text in which the history block is sent: the user message of the
\* Ollama variant, the prompt of the Gemini variant.
SentText ==
    IF dispatch.variant = "ollama" THEN dispatch.sent[2].content ELSE dispatch.sent

\* C4: for a non-empty sequence of turns the text sent to the backend holds
\* one history block: the line "Conversation history:", then for n = 1..N,
\* in the given order, the line "n. User: <user text>" immediately followed
\* by "n. Assistant: <assistant text>", then a blank line; no turn is
\* reordered, merged, dropped or deduplicated.
C4_HistoryBlock ==
    (Dispatched /\ HasHistory(dispatch.call.history)) =>
       LET turns == Get(dispatch.call.history)
           lines == SplitLines(SentText)
           heads == {i \in 1..Len(lines) : lines[i] = <<"Conversation history:">>}
       IN  /\ Cardinality(heads) = 1
           /\ \A h \in heads :
                 /\ Len(lines) > h + 2 * Len(turns)
                 /\ \A n \in 1..Len(turns) :
                       /\ lines[h + 2 * n - 1] = <<ToString(n) \o ". User: ">> \o turns[n][1]
                       /\ lines[h + 2 * n] = <<ToString(n) \o ". Assistant: ">> \o turns[n][2]
                 /\ lines[h + 2 * Len(turns) + 1] = <<>>

\* Two equal turns, both rendered, by the Gemini variant.
C4_Witness ==
    /\ Dispatched
    /\ dispatch.variant = "gemini"
    /\ HasHistory(dispatch.call.history)
    /\ Len(Get(dispatch.call.history)) = 2
    /\ Get(dispatch.call.history)[1] = Get(dispatch.call.history)[2]

\* The non-blank lines handed to the model by a variant, system text first.
PromptLines(variant, sent) ==
    IF variant = "ollama"
    THEN NonBlank(SplitLines(sent[1].content)) \o NonBlank(SplitLines(sent[2].content))
    ELSE NonBlank(SplitLines(sent))

\* C5: for the same message, date window, history and stored entries the
\* Gemini and the Ollama variant hand the model the same lines (system
\* instruction, context markers, history block, and last the line
\* "User question: <message>") and trim the reply the same way.
C5_SameTextContract ==
    Dispatched =>
       LET call   == dispatch.call
           ollama == OllamaMessages(call.message, call.start_date, call.end_date,
                                    call.history, Get(dispatch.context_text))
           gemini == GeminiPrompt(call.message, call.start_date, call.end_date,
                                  call.history, Get(dispatch.context_text))
           lines  == PromptLines(dispatch.variant, dispatch.sent)
       IN  /\ lines = PromptLines("ollama", ollama)
           /\ lines = PromptLines("gemini", gemini)
           /\ lines[Len(lines)] = <<"User question: ">> \o call.message
           /\ dispatch.result = _chat(Get(dispatch.backend))
           /\ dispatch.result = GeminiReply(Get(dispatch.backend))

\* C10: when the backend answers a chat call with no text (None) or with the
\* empty string, chat_with_journal_context returns that value unchanged and
\* raises no error.
C10_DegenerateReplyReturned ==
    (/\ Dispatched
     /\ Get(dispatch.backend).kind = "reply"
     /\ Get(dispatch.backend).content \in {None, Some(<<>>)}) =>
       dispatch.result =
          Returned(IF IsNone(Get(dispatch.backend).content) THEN None
                   ELSE Get(Get(dispatch.backend).content))

(***************************************************************************)
(* Properties of the context window (specification SpecContext).           *)
(***************************************************************************)
\* The entries of the window whose value for the metric is a number.
Carrying(entries, key) ==
    {i \in 1..Len(entries) : ~IsNone(entries[i].metrics[key])}

RECURSIVE SumOf(_, _, _)
SumOf(entries, key, indices) ==
    IF indices = {} THEN 0
    ELSE LET i == CHOOSE j \in indices : TRUE
         IN  Get(entries[i].metrics[key]) + SumOf(entries, key, indices \ {i})

Abs(x) == IF x < 0 THEN -x ELSE x

\* C2: for every window built and each of the four metrics, the reported
\* average is the hundredth nearest to the arithmetic mean over exactly the
\* entries whose value for the metric is a number (entries without metrics
\* do not count in the divisor), and it is None, never 0, when no entry
\* carries the metric.
C2_AverageOverCarrying ==
    ~IsNone(window) =>
       LET payload == Get(window).payload
       IN  \A k \in 1..Len(MetricKeys) :
              LET key      == MetricKeys[k]
                  carrying == Carrying(payload.entries, key)
                  n        == Cardinality(carrying)
                  total    == SumOf(payload.entries, key, carrying)
                  reported == payload.metrics[key]
              IN  IF n = 0 THEN IsNone(reported)
                  ELSE /\ ~IsNone(reported)
                       /\ 2 * Abs(Get(reported) * n - total) <= n

\* A window with an entry without metrics and three entries with metrics
\* whose mood mean needs rounding.
C2_Witness ==
    /\ ~IsNone(window)
    /\ LET entries  == Get(window).payload.entries
           carrying == Carrying(entries, "mood_score")
       IN  /\ Cardinality(carrying) = 3
           /\ Cardinality(carrying) < Len(entries)
           /\ SumOf(entries, "mood_score", carrying) % 3 # 0

(***************************************************************************)
(* Properties of ingest_journal (specification SpecIngest).                *)
(***************************************************************************)
\* The extraction answer of the model that is no JSON.
Unparseable == <<"Sorry, I cannot help with that.">>

ParseFailed(call) ==
    /\ call.pc = "done"
    /\ call.outcome = Some([kind |-> "reply", content |-> Some(Unparseable)])

\* C6: when the extraction response cannot be parsed as JSON, ingest_journal
\* raises an error carrying the parse detail and the raw text, and the store
\* after the call is the store before it: nothing new is committed and the
\* entry stored for the same path stays with its metadata, events and people.
C6_ParseFailureKeepsStore ==
    [][ParseFailed(ingest') =>
          /\ ~ingest'.result.ok
          /\ ingest'.result.error =
                <<"Failed to parse Ollama JSON: ",
                  "Expecting value: line 1 column 1 (char 0)", NL, "Raw: ">>
                \o Unparseable
          /\ store' = store]_vars

\* A failed re-ingest of a changed file whose earlier entry, with metadata,
\* event and person, is in the store.
C6_Witness ==
    /\ ParseFailed(ingest)
    /\ ~ingest.result.ok
    /\ ~IsNone(ingest.call.existing)
    /\ \E e \in store.entries :
          /\ e.id = Get(ingest.call.existing)
          /\ e.source_path = ingest.call.path
          /\ e.file_hash # ingest.call.file_hash
          /\ \E m \in store.metadata : m.entry_id = e.id
          /\ \E v \in store.events :
                v.entry_id = e.id /\ \E q \in store.people : q.event_id = v.id

\* C7: after any sequence of ingest_journal calls the store holds at most
\* one journal entry per source path.
C7_OneEntryPerPath ==
    \A e1 \in store.entries, e2 \in store.entries :
       e1.source_path = e2.source_path => e1 = e2

\* A re-ingest has replaced the entry of one path while another path is
\* stored.
C7_Witness ==
    /\ ingest.pc = "done"
    /\ ingest.result = Returned(TRUE)
    /\ ~IsNone(ingest.call.existing)
    /\ \E e \in store.entries : e.source_path = ingest.call.path
    /\ \E e \in store.entries : e.source_path # ingest.call.path

\* An entry as the context window shows it.
Shown(db, e) == _serialize_entry(db, e)

\* C8: a call of ingest_journal that changes the store removes or changes a
\* stored entry only if the entry has the path ingested; an entry of another
\* path, of the same date or not, stays as it is, and afterwards every
\* stored entry, entries of one date under different paths included, appears
\* in each context window over its date.
C8_ReplacedOnlyBySamePath ==
    [][store' # store =>
          /\ \A e \in store.entries :
                (e \notin store'.entries \/ Shown(store', e) # Shown(store, e)) =>
                   /\ ingest'.pc = "done"
                   /\ ingest'.call.path = e.source_path
                   /\ ingest'.result = Returned(TRUE)
          /\ \A e \in store'.entries :
                \A entries \in list_entries_between(store', e.entry_date, e.entry_date) :
                   \E i \in 1..Len(entries) :
                      /\ entries[i].id = e.id
                      /\ entries[i].source_path = e.source_path]_vars

\* Two files of one date under different paths, the second just ingested:
\* both are stored and both are in the window over that date.
C8_Witness ==
    /\ ingest.pc = "done"
    /\ ingest.result = Returned(TRUE)
    /\ \E e1 \in store.entries, e2 \in store.entries :
          /\ e1.source_path = ingest.call.path
          /\ e2.source_path # e1.source_path
          /\ e2.entry_date = e1.entry_date
          /\ \E entries \in list_entries_between(store, e1.entry_date, e1.entry_date) :
                {entries[i].source_path : i \in 1..Len(entries)}
                   = {e1.source_path, e2.source_path}

(***************************************************************************)
(* More properties of the chat endpoint (specification Spec).              *)
(***************************************************************************)
Succeeded(r) ==
    /\ chat[r].pc = "done"
    /\ chat[r].responses # <<>>
    /\ chat[r].responses[Len(chat[r].responses)].status = 200

AllSpace(t) == \A i \in 1..Len(t) : t[i] \in {SP, NL}

\* C11: for every successful chat request the response field is the
\* backend's reply with only leading and trailing whitespace removed: the
\* reply is whitespace, then the response, then whitespace, and the response
\* neither starts nor ends with whitespace; start_date and end_date are those
\* of the request.
C11_ResponseIsTrimmedReply ==
    \A r \in ChatIds :
       Succeeded(r) =>
          LET reply == Get(Get(chat[r].backend).content)
              out   == chat[r].responses[1]
          IN  /\ Len(chat[r].responses) = 1
              /\ \E i \in 0..Len(reply) :
                    /\ i + Len(out.response) <= Len(reply)
                    /\ AllSpace(SubSeq(reply, 1, i))
                    /\ SubSeq(reply, i + 1, i + Len(out.response)) = out.response
                    /\ AllSpace(SubSeq(reply, i + Len(out.response) + 1, Len(reply)))
              /\ out.response # <<>> =>
                    /\ out.response[1] \notin {SP, NL}
                    /\ out.response[Len(out.response)] \notin {SP, NL}
              /\ out.start_date = chat[r].request.start_date
              /\ out.end_date = chat[r].request.end_date

\* A reply with whitespace on both sides and inside; the inner one stays.
C11_Witness ==
    \E r \in ChatIds :
       /\ Succeeded(r)
       /\ Get(Get(chat[r].backend).content) = <<NL, "fine", SP, "day", SP>>
       /\ chat[r].responses[1].response = <<"fine", SP, "day">>
       /\ chat[r].request.start_date < chat[r].request.end_date

(***************************************************************************)
(* Properties of the WHOOP data endpoints (specification SpecWhoop).       *)
(***************************************************************************)
\* The GETs of the summary request that went to the path of loop k, in the
\* order sent.
SentTo(k) == SelectSeq(whoop.sent, LAMBDA q : q.path = ListPath(Kinds[k]))

RECURSIVE Concat(_)
Concat(seqs) == IF seqs = <<>> THEN <<>> ELSE Head(seqs) \o Concat(Tail(seqs))

HasToken(page) == ~IsNone(page.next_token)

\* The pagination loop k of a summary request, as far as it has got.
LoopAsSpecified(k) ==
    LET asked == SentTo(k)
        pages == whoop.pages[k]
        n     == Len(pages)
        ended == n > 0 /\ ~HasToken(pages[n])
    IN  /\ Len(asked) \in {n, n + 1}
        /\ Len(asked) = n + 1 => /\ whoop.pc = "done"
                                 /\ whoop.responses[1].status = 500
        /\ \A i \in 1..Len(asked) :
              asked[i].params.nextToken =
                 IF i = 1 THEN None ELSE pages[i - 1].next_token
        /\ \A i \in 1..(n - 1) : HasToken(pages[i])
        /\ ended => Len(asked) = n
        /\ IF ended
           THEN /\ whoop.results[k] =
                      Some(Concat([i \in 1..n |-> pages[i].records]))
                /\ whoop.loop > k \/ whoop.pc = "done"
           ELSE /\ IsNone(whoop.results[k])
                /\ whoop.loop <= k

\* C12: every pagination loop of the WHOOP client ends as soon as a page
\* carries no continuation token; until then each request after the first
\* carries the token of the previous page, and the loop's result is the
\* concatenation of the records of the pages fetched, in fetch order; and
\* with the API serving a page without a token in the end, the request that
\* is paging eventually returns.
C12_PaginationTerminates ==
    /\ [](whoop.endpoint = "summary" => \A k \in 1..4 : LoopAsSpecified(k))
    /\ (whoop.pc = "paging") ~> (whoop.pc = "done")

\* A summary whose sleep loop fetched three pages: the first, the page of
\* token t1, the page of token t2.
C12_Witness ==
    /\ whoop.endpoint = "summary"
    /\ whoop.pc = "done"
    /\ whoop.responses[1].status = 200
    /\ Len(whoop.pages[2]) = 3
    /\ Len(Get(whoop.results[2])) = 3
    /\ [i \in 1..3 |-> SentTo(2)[i].params.nextToken] = <<None, Some("t1"), Some("t2")>>

\* What the WHOOP API did with a GET was a failure: no answer, or an answer
\* with a status outside 200..299.
Failed(outcome) ==
    outcome.kind = "unreachable" \/ outcome.status \notin 200..299

\* C13: for the record and summary endpoints, whenever the WHOOP API is
\* unreachable or answers a GET with a non-success status, the request ends
\* in one failure response (500) carrying the underlying detail, never in a
\* success response, and no GET is sent after the failed one.
C13_FailurePropagates ==
    (/\ whoop.pc = "done"
     /\ whoop.endpoint \in {Kinds[k] : k \in 1..4} \cup {"summary"}
     /\ \E i \in 1..Len(whoop.received) : Failed(whoop.received[i])) =>
       /\ Len(whoop.responses) = 1
       /\ whoop.responses[1].status = 500
       /\ whoop.responses[1].detail # <<>>
       /\ Failed(whoop.received[Len(whoop.received)])
       /\ Len(whoop.sent) = Len(whoop.received)

ProfileRead ==
    /\ whoop.pc = "done"
    /\ whoop.endpoint = "profile"
    /\ whoop.received # <<>>

\* C14: in the profile endpoint a failure of the body-measurement read is
\* swallowed: the request succeeds with the profile and a null body; the
\* request fails, with a 500, only when the profile read itself fails, and
\* then the body is not read.
C14_BodyFailureSwallowed ==
    ProfileRead =>
       LET read == whoop.received[1]
           out  == whoop.responses[1]
       IN  /\ Len(whoop.responses) = 1
           /\ IF Failed(read)
              THEN /\ out.status = 500
                   /\ out.detail # <<>>
                   /\ Len(whoop.received) = 1
              ELSE /\ out.status = 200
                   /\ out.profile = Get(read.json.object)
                   /\ Len(whoop.received) = 2
                   /\ out.body = IF Failed(whoop.received[2]) THEN None
                                 ELSE whoop.received[2].json.object

\* The profile read answered, the body read refused (401).
C14_Witness ==
    /\ ProfileRead
    /\ Len(whoop.received) = 2
    /\ whoop.received[2].kind = "response"
    /\ whoop.received[2].status = 401
    /\ whoop.responses[1].status = 200
    /\ IsNone(whoop.responses[1].body)

(***************************************************************************)
(* More properties of the context window (specification SpecContext).      *)
(***************************************************************************)
\* The ISO form of the date of day ordinal d.
IsoDate(d) == "2024-02-" \o (IF d < 10 THEN "0" ELSE "") \o ToString(d)

Built == ~IsNone(window)
WindowLines == SplitLines(Get(window).payload.text)

\* C15: for a window with no stored entry in it, the context text has two
\* lines: the first says that no journal entries are stored between the
\* requested start date and end date, both written out; the second reports
\* that no metrics are available.
C15_EmptyWindowText ==
    (Built /\ Get(window).payload.entries = <<>>) =>
       /\ Len(WindowLines) = 2
       /\ WindowLines[1] = <<"No journal entries stored between ",
                             IsoDate(Get(window).start), " and ",
                             IsoDate(Get(window).end), ".">>
       /\ WindowLines[2] = <<"Averages -> ", "No metrics available.">>

\* An empty window over two different dates, the store holding nothing.
C15_Witness ==
    /\ Built
    /\ Get(window).payload.entries = <<>>
    /\ Get(window).start < Get(window).end
    /\ store.entries = {}

\* What C16 says the narrative line of an entry holds after the date.
NarrativePart(entry) ==
    (IF IsNone(entry.summary) THEN <<"(no summary)">> ELSE Get(entry.summary))
    \o <<" | ">>
    \o (IF entry.events = <<>> THEN <<"No events captured.">>
        ELSE <<"Key event: ">> \o entry.events[1].description
             \o (IF entry.events[1].people = <<>> THEN <<>>
                 ELSE <<" (people: ">>
                      \o Join(<<", ">>, entry.events[1].people) \o <<")">>))

\* C16: the narrative line of every entry of a window is "- <date>: ", then
\* the summary or "(no summary)", then " | ", then "Key event: <description
\* of the first event>" followed by " (people: <names joined by ', '>)"
\* exactly when that event has a person, or "No events captured." when the
\* entry has no event.
C16_NarrativeLine ==
    Built =>
       LET entries == Get(window).payload.entries
       IN  \A i \in 1..Len(entries) :
              /\ Len(WindowLines) >= i + 2
              /\ WindowLines[i + 2] =
                    <<"- ", IsoDate(entries[i].date), ": ">> \o NarrativePart(entries[i])

\* A window showing the three shapes: event with people, event without
\* people, no event.
C16_Witness ==
    /\ Built
    /\ \E i, j, k \in 1..Len(WindowLines) :
          /\ WindowLines[i] = <<"- ", "2024-02-01", ": ", "Good day", " | ", "Key event: ",
                                "Lunch with Sam", " (people: ", "Ana", ", ", "Sam", ")">>
             \/ WindowLines[i] = <<"- ", "2024-02-01", ": ", "Good day", " | ", "Key event: ",
                                   "Lunch with Sam", " (people: ", "Sam", ", ", "Ana", ")">>
          /\ WindowLines[j][Len(WindowLines[j])] = "Lunch with Sam"
          /\ WindowLines[k][Len(WindowLines[k])] = "No events captured."
          /\ "(no summary)" \in {WindowLines[k][n] : n \in 1..Len(WindowLines[k])}

\* C18: the window built for [start, end] holds exactly the stored entries
\* with start <= date <= end, in ascending date order; the coverage line
\* gives the date of the first and of the last of them and their count, and
\* the narrative lines follow, one per entry, in the same order.
C18_WindowContents ==
    Built =>
       LET entries == Get(window).payload.entries
           n       == Len(entries)
           inside  == {e \in store.entries :
                          Get(window).start <= e.entry_date
                          /\ e.entry_date <= Get(window).end}
       IN  /\ {entries[i].id : i \in 1..n} = {e.id : e \in inside}
           /\ n = Cardinality(inside)
           /\ \A i \in 1..n :
                 \E e \in inside : e.id = entries[i].id /\ e.entry_date = entries[i].date
           /\ \A i \in 1..(n - 1) : entries[i].date <= entries[i + 1].date
           /\ Len(WindowLines) = n + 2
           /\ n > 0 =>
                 WindowLines[1] = <<"Context window coverage: ", IsoDate(entries[1].date),
                                    " to ", IsoDate(entries[n].date),
                                    " (", ToString(n), " entries).">>
           /\ \A i \in 1..n :
                 SubSeq(WindowLines[i + 2], 1, 2) = <<"- ", IsoDate(entries[i].date)>>

\* A window of one day, the end date, with two entries in it and another
\* entry of the store left out.
C18_Witness ==
    /\ Built
    /\ Get(window).start = Get(window).end
    /\ Len(Get(window).payload.entries) >= 2
    /\ \E e \in store.entries : e.entry_date < Get(window).start

\* The events stored for an entry, in stored (id) order, as the structured
\* list shows them.
StoredEvents(entry_id) ==
    LET evts == SeqById({v \in store.events : v.entry_id = entry_id})
    IN  [i \in 1..Len(evts) |->
           [id |-> evts[i].id, description |-> evts[i].description,
            category |-> evts[i].category, effect_on_mood |-> evts[i].effect_on_mood]]

\* C19: of an entry with several events only the first appears in its
\* narrative line, while the structured entry list of the window holds all
\* the entry's events, unchanged and in stored order.
C19_FirstEventOnly ==
    Built =>
       LET entries == Get(window).payload.entries
       IN  \A i \in 1..Len(entries) :
              LET events == entries[i].events
                  line   == WindowLines[i + 2]
              IN  /\ [j \in 1..Len(events) |->
                         [id |-> events[j].id, description |-> events[j].description,
                          category |-> events[j].category,
                          effect_on_mood |-> events[j].effect_on_mood]]
                       = StoredEvents(entries[i].id)
                  /\ \A j \in 2..Len(events) :
                        \A n \in 1..Len(line) :
                           events[j].description # events[1].description
                              => line[n] \notin {events[j].description[m] :
                                                   m \in 1..Len(events[j].description)}
                  /\ events # <<>> =>
                        \E n \in 1..Len(line) : line[n] = events[1].description[1]

\* The entry with two events: the first in the line, both in the list.
C19_Witness ==
    /\ Built
    /\ \E i \in 1..Len(Get(window).payload.entries) :
          /\ Len(Get(window).payload.entries[i].events) = 2
          /\ "Lunch with Sam" \in {WindowLines[i + 2][n] : n \in 1..Len(WindowLines[i + 2])}
          /\ "Evening run" \notin {WindowLines[i + 2][n] : n \in 1..Len(WindowLines[i + 2])}
          /\ Get(window).payload.entries[i].events[2].description = <<"Evening run">>

(***************************************************************************)
(* Properties of the reply cleaner (specification SpecClean).              *)
(***************************************************************************)
Cleaned == Get(cleanup.cleaned)

\* A bare JSON object: it opens with "{", closes with "}", and holds no
\* fence.
BareObject(t) ==
    /\ t # <<>>
    /\ t[1] = "{"
    /\ t[Len(t)] = "}"
    /\ \A i \in 1..Len(t) : t[i] # FENCE

\* The inner objects of which t is the fenced block: t is a fence, an
\* optional "json" tag, whitespace, the object, whitespace and a fence.
InnerObjects(t) ==
    {inner \in {SubSeq(t, i, j) : i \in 1..Len(t), j \in 1..Len(t)} :
        /\ BareObject(inner)
        /\ \E tag \in {<<>>, <<"json">>} :
           \E before, after \in SeqsUpTo({NL}, 1) :
              t = <<FENCE>> \o tag \o before \o inner \o after \o <<FENCE>>}

\* The substring of t from its first "{" to its last "}".
FirstToLastBrace(t) ==
    LET opens  == {i \in 1..Len(t) : t[i] = "{"}
        closes == {i \in 1..Len(t) : t[i] = "}"}
    IN  SubSeq(t, CHOOSE i \in opens : \A j \in opens : i <= j,
                  CHOOSE i \in closes : \A j \in closes : j <= i)

\* C17 as stated: a bare JSON object is returned unchanged, cleaning a second
\* time changes nothing whatever the reply, and a fenced block with an
\* optional "json" tag is reduced to the inner object, the substring from the
\* first "{" to the last "}".
C17_CleanIdempotent ==
    /\ (cleanup.pc # "raw" /\ BareObject(cleanup.raw)) => Cleaned = cleanup.raw
    /\ cleanup.pc = "again" => Get(cleanup.again) = Cleaned
    /\ cleanup.pc # "raw" =>
          \A inner \in InnerObjects(cleanup.raw) :
             Cleaned = inner /\ Cleaned = FirstToLastBrace(cleanup.raw)

\* C17, amended: a bare JSON object is returned unchanged; cleaning a second
\* time changes nothing when the first result does not itself start with a
\* fence, which is so whenever the reply holds a "{" before a "}"; and a
\* fenced block with an optional "json" tag is reduced to the inner object,
\* the substring from the first "{" to the last "}".
C17_CleanIdempotentOnClean ==
    /\ (cleanup.pc # "raw" /\ BareObject(cleanup.raw)) => Cleaned = cleanup.raw
    /\ (cleanup.pc = "again" /\ (Cleaned = <<>> \/ Head(Cleaned) # FENCE))
          => Get(cleanup.again) = Cleaned
    /\ (cleanup.pc # "raw"
        /\ \E i, j \in 1..Len(cleanup.raw) :
              i < j /\ cleanup.raw[i] = "{" /\ cleanup.raw[j] = "}")
          => (Cleaned # <<>> /\ Head(Cleaned) = "{")
    /\ cleanup.pc # "raw" =>
          \A inner \in InnerObjects(cleanup.raw) :
             Cleaned = inner /\ Cleaned = FirstToLastBrace(cleanup.raw)

\* The fenced and tagged reply of the extraction, cleaned twice.
C17_Witness ==
    /\ cleanup.pc = "again"
    /\ cleanup.raw = <<FENCE, "json", NL, "{", "full", "}", NL, FENCE>>
    /\ Cleaned = <<"{", "full", "}">>
    /\ Get(cleanup.again) = <<"{", "full", "}">>

(***************************************************************************)
(* The body of a chat call (specification SpecDispatch).                   *)
(***************************************************************************)
\* The text from the first context-start marker on.
RECURSIVE FromStartMarker(_)
FromStartMarker(t) ==
    IF t = <<>> \/ Head(t) = "=== Journal Context Start ===" THEN t
    ELSE FromStartMarker(Tail(t))

\* The body a variant sends: the user message of the Ollama variant, the
\* prompt of the Gemini variant from the context-start marker on.
SentBody == FromStartMarker(SentText)

\* The lines of the history block of C20: the heading, two lines per turn,
\* and a blank line; nothing when there is no turn.
HistoryBlockLines(history) ==
    IF ~HasHistory(history) THEN <<>>
    ELSE << <<"Conversation history:">> >>
         \o Flatten([n \in 1..Len(Get(history)) |->
                << <<ToString(n) \o ". User: ">> \o Get(history)[n][1],
                   <<ToString(n) \o ". Assistant: ">> \o Get(history)[n][2] >>])
         \o << <<>> >>

\* C20: the body sent to the model is, in this order, the context-start
\* marker, the context text, the context-end marker, a blank line, the
\* history block when there is a history, and last the line
\* "User question: <message>"; nothing follows the user question.
C20_BodyOrder ==
    Dispatched =>
       SplitLines(SentBody) =
          << <<"=== Journal Context Start ===">> >>
          \o SplitLines(Get(dispatch.context_text))
          \o << <<"=== Journal Context End ===">>, <<>> >>
          \o HistoryBlockLines(dispatch.call.history)
          \o << <<"User question: ">> \o dispatch.call.message >>

\* The same, for the Ollama variant alone.
C20_OllamaBodyOrder == (Dispatched /\ dispatch.variant = "ollama") => C20_BodyOrder

(***************************************************************************)
(* The steps of a chat request (specifications Spec and SpecPair).         *)
(***************************************************************************)
\* The request of slot r passed the range check.
Accepted(r) ==
    chat[r].pc \in {"context", "model", "done"} /\ ~IsNone(chat[r].history_tuples)

\* C21: an accepted chat request makes exactly one query of the store and
\* then at most one call of the model backend: the call is made only after
\* the context is built, never after a failed query, and neither step is
\* made twice.
C21_OneQueryThenOneCall ==
    /\ [](Accepted(1) =>
            /\ chat[1].db_queries <= 1
            /\ chat[1].llm_calls <= 1
            /\ chat[1].llm_calls = 1 => (chat[1].db_queries = 1 /\ ~IsNone(chat[1].context))
            /\ chat[1].pc \in {"model", "done"} => chat[1].db_queries = 1
            /\ (chat[1].pc = "done" /\ IsNone(chat[1].context)) =>
                  (chat[1].llm_calls = 0 /\ chat[1].result = Some(Raised(DbError)))
            /\ Len(chat[1].responses) <= 1)
    /\ [][chat'[1].llm_calls # chat[1].llm_calls =>
             /\ chat[1].llm_calls = 0
             /\ chat[1].db_queries = 1
             /\ chat'[1].db_queries = 1
             /\ ~IsNone(chat[1].context)]_vars
    /\ [][chat'[1].db_queries # chat[1].db_queries =>
             (chat[1].db_queries = 0 /\ chat[1].llm_calls = 0 /\ chat'[1].llm_calls = 0)]_vars

\* A request answered after one query and one call.
C21_Witness ==
    /\ chat[1].pc = "done"
    /\ chat[1].db_queries = 1
    /\ chat[1].llm_calls = 1
    /\ chat[1].responses # <<>>
    /\ chat[1].responses[1].status = 200

\* The messages request q gives the model over the store, for each order the
\* query may return the entries in.
OwnPrompts(q) ==
    {OllamaMessages(q.message, q.start_date, q.end_date,
                    HistoryArg(history_tuples(q.history)),
                    build_context_window(entries, q.start_date, q.end_date).text) :
        entries \in list_entries_between(store, q.start_date, q.end_date)}

\* C22: however two chat requests interleave, each makes its own query and
\* its own model call, sends a prompt built from its own message, window and
\* history and the store, and is answered with the reply to that call;
\* nothing of the one request shows in the other.
C22_RequestsIndependent ==
    \A r \in ChatIds :
       /\ chat[r].db_queries <= 1
       /\ chat[r].llm_calls <= 1
       /\ ~IsNone(chat[r].context) =>
             /\ chat[r].db_queries = 1
             /\ \E entries \in list_entries_between(store, chat[r].request.start_date,
                                                    chat[r].request.end_date) :
                   Get(chat[r].context) =
                      build_context_window(entries, chat[r].request.start_date,
                                           chat[r].request.end_date)
       /\ ~IsNone(chat[r].backend) =>
             /\ chat[r].llm_calls = 1
             /\ chat[r].sent \in OwnPrompts(chat[r].request)
             /\ chat[r].sent[2].content =
                   OllamaUserContent(chat[r].request.message, Get(chat[r].context).text,
                                     HistoryArg(history_tuples(chat[r].request.history)))
             /\ chat[r].responses =
                   <<ChatResponse(chat[r].request, _chat(Get(chat[r].backend)))>>

\* Two requests in flight together, with different messages, windows and
\* histories over a store with entries, both answered, with different
\* replies.
C22_Witness ==
    /\ chat[1].pc = "done" /\ chat[2].pc = "done"
    /\ ~IsNone(chat[1].backend) /\ ~IsNone(chat[2].backend)
    /\ chat[1].request.message # chat[2].request.message
    /\ chat[1].request.history # chat[2].request.history
    /\ chat[1].request.start_date # chat[2].request.start_date
    /\ Get(chat[1].context) # Get(chat[2].context)
    /\ chat[1].responses[1].status = 200 /\ chat[2].responses[1].status = 200
    /\ chat[1].responses[1].response # chat[2].responses[1].response

(***************************************************************************)
(* The values ingest_journal stores (specification SpecFields).            *)
(***************************************************************************)
\* ingest_journal went past the skip test with the dict ingest.metadata.
Extracted == ingest.pc = "done" /\ ~IsNone(ingest.metadata)

\* The entry stored for the path of the call, and its rows.
EntryOfCall == {e \in store.entries : e.source_path = ingest.call.path}
MetadataOfCall == {m \in store.metadata : \E e \in EntryOfCall : m.entry_id = e.id}
EventsOfCall == SeqById({v \in store.events : \E e \in EntryOfCall : v.entry_id = e.id})

\* The number a JSON value gives, in hundredths, if it gives one.
NumberGiven(value) ==
    CASE value.t = "int"   -> Some(value.v * 100)
      [] value.t = "float" -> Some(value.v)
      [] value.t = "str"   -> IF value.text = <<"8">> THEN Some(800)
                              ELSE IF value.text = <<"7.5">> THEN Some(750) ELSE None
      [] OTHER             -> None

GivenOr(value, default) ==
    IF IsNone(NumberGiven(value)) THEN default ELSE Get(NumberGiven(value))

\* C23: when ingest_journal ingests extracted metadata, a missing or
\* unparseable mood, energy or stress score is stored as 5, a missing or
\* unparseable sleep_hours as 7.0, a missing or unparseable effect on mood of
\* an event as 0, a missing or empty category as "other", and a value that
\* parses is stored as it was given.
C23_DefaultsOrAsGiven ==
    Extracted =>
       LET metadata == Get(ingest.metadata)
           metrics  == IF IsNone(metadata.metrics)
                       THEN [mood_score |-> JNull, energy_score |-> JNull,
                             stress_score |-> JNull, sleep_hours |-> JNull]
                       ELSE Get(metadata.metrics)
           payloads == IF IsNone(metadata.events) THEN <<>> ELSE Get(metadata.events)
       IN  /\ ingest.result = Returned(TRUE)
           /\ \E m \in MetadataOfCall :
                 /\ m.mood_score = GivenOr(metrics.mood_score, 500)
                 /\ m.energy_score = GivenOr(metrics.energy_score, 500)
                 /\ m.stress_score = GivenOr(metrics.stress_score, 500)
                 /\ m.sleep_hours = GivenOr(metrics.sleep_hours, 700)
           /\ Len(EventsOfCall) = Len(payloads)
           /\ \A i \in 1..Len(payloads) :
                 /\ EventsOfCall[i].effect_on_mood = GivenOr(payloads[i].effect_on_mood, 0)
                 /\ EventsOfCall[i].category =
                       IF IsNone(payloads[i].category) \/ Get(payloads[i].category) = <<>>
                       THEN <<"other">> ELSE Get(payloads[i].category)

\* What int() makes of the number a value gives: the fraction is cut off.
IntGivenOr(value, default) ==
    LET given == GivenOr(value, default)
    IN  IF given >= 0 THEN given - (given % 100) ELSE -((-given) - ((-given) % 100))

\* What does hold of the stored values: an infinite score or effect on mood
\* makes the ingest fail with OverflowError and leaves the store as it was;
\* otherwise the defaults are those of C23, a number given for a score or an
\* effect on mood is stored without its fraction, sleep_hours is stored as
\* given, and the category is stored stripped, "other" if nothing is left.
StoredAsConverted ==
    Extracted =>
       LET metadata == Get(ingest.metadata)
           metrics  == IF IsNone(metadata.metrics)
                       THEN [mood_score |-> JNull, energy_score |-> JNull,
                             stress_score |-> JNull, sleep_hours |-> JNull]
                       ELSE Get(metadata.metrics)
           payloads == IF IsNone(metadata.events) THEN <<>> ELSE Get(metadata.events)
           infinite == \/ JInf \in {metrics.mood_score, metrics.energy_score,
                                    metrics.stress_score}
                       \/ \E i \in 1..Len(payloads) : payloads[i].effect_on_mood = JInf
       IN  IF infinite
           THEN /\ ingest.result = Raised(OverflowError)
                /\ store \in SeedStores
           ELSE
           /\ ingest.result = Returned(TRUE)
           /\ \E m \in MetadataOfCall :
                 /\ m.mood_score = IntGivenOr(metrics.mood_score, 500)
                 /\ m.energy_score = IntGivenOr(metrics.energy_score, 500)
                 /\ m.stress_score = IntGivenOr(metrics.stress_score, 500)
                 /\ m.sleep_hours = GivenOr(metrics.sleep_hours, 700)
           /\ Len(EventsOfCall) = Len(payloads)
           /\ \A i \in 1..Len(payloads) :
                 /\ EventsOfCall[i].effect_on_mood
                       = IntGivenOr(payloads[i].effect_on_mood, 0)
                 /\ EventsOfCall[i].category =
                       IF IsNone(payloads[i].category)
                          \/ Strip(Get(payloads[i].category)) = <<>>
                       THEN <<"other">> ELSE Strip(Get(payloads[i].category))

\* C24: after an ingest no stored person has an empty name, names made of
\* whitespace only being dropped like empty ones, and every name that is not
\* blank is stored, stripped, for its event.
C24_NoBlankPerson ==
    /\ \A p \in store.people : p.name # <<>>
    /\ (Extracted /\ ingest.result = Returned(TRUE)) =>
          LET payloads == IF IsNone(Get(ingest.metadata).events) THEN <<>>
                          ELSE Get(Get(ingest.metadata).events)
          IN  \A i \in 1..Len(payloads) :
                 LET people == IF IsNone(payloads[i].people) THEN <<>>
                               ELSE Get(payloads[i].people)
                 IN  \A j \in 1..Len(people) :
                        Strip(people[j]) # <<>> =>
                           \E p \in store.people :
                              p.event_id = EventsOfCall[i].id /\ p.name = Strip(people[j])

\* What does hold of the stored people: the empty name is dropped, and every
\* other name is stored stripped, in the order given, a name of whitespace
\* as the empty name.
PeopleAsStored ==
    (Extracted /\ ingest.result = Returned(TRUE)) =>
       LET payloads == IF IsNone(Get(ingest.metadata).events) THEN <<>>
                       ELSE Get(Get(ingest.metadata).events)
       IN  \A i \in 1..Len(payloads) :
              LET people == IF IsNone(payloads[i].people) THEN <<>>
                            ELSE Get(payloads[i].people)
                  kept   == SelectSeq(people, LAMBDA n : n # <<>>)
                  stored == SeqById({p \in store.people : p.event_id = EventsOfCall[i].id})
              IN  /\ Len(stored) = Len(kept)
                  /\ \A j \in 1..Len(kept) : stored[j].name = Strip(kept[j])

(***************************************************************************)
(* Ownership and the return value of ingest_journal (specification         *)
(* SpecIngest).                                                            *)
(***************************************************************************)
\* The rows of db that belong to the entries with an id in ids.
RowsOf(db, ids) ==
    LET evts == {v \in db.events : v.entry_id \in ids}
    IN  [metadata |-> {m \in db.metadata : m.entry_id \in ids},
         events   |-> evts,
         people   |-> {p \in db.people : p.event_id \in {v.id : v \in evts}}]

Owned(db) ==
    /\ \A m \in db.metadata : \E e \in db.entries : e.id = m.entry_id
    /\ \A v \in db.events : \E e \in db.entries : e.id = v.entry_id
    /\ \A p \in db.people : \E v \in db.events : v.id = p.event_id
    /\ \A m1 \in db.metadata, m2 \in db.metadata : m1.entry_id = m2.entry_id => m1 = m2

\* C25: after any sequence of ingests every metrics record and every event
\* belongs to a stored entry, every person to a stored event, and an entry
\* has at most one metrics record; an ingest that replaces an entry leaves
\* of the path only the new entry with the rows of the new metadata, the
\* old entry's metrics, events and people are gone, and the rows of the
\* other entries stay.
C25_OwnedRows ==
    /\ [](Owned(store))
    /\ [][(store' # store /\ ~IsNone(ingest'.call.existing)) =>
             LET old      == Get(ingest'.call.existing)
                 others   == {e.id : e \in {x \in store.entries : x.id # old}}
                 new      == {e.id : e \in {x \in store'.entries :
                                               x.source_path = ingest'.call.path}}
                 metadata == extract_journal_metadata(Get(ingest'.outcome)).value
                 payloads == IF IsNone(metadata.events) THEN <<>>
                             ELSE Get(metadata.events)
                 people   == Flatten([i \in 1..Len(payloads) |->
                                SelectSeq(IF IsNone(payloads[i].people) THEN <<>>
                                          ELSE Get(payloads[i].people),
                                          LAMBDA n : n # <<>>)])
             IN  /\ Cardinality(new) = 1
                 /\ {e.id : e \in store'.entries} = others \cup new
                 /\ {e \in store'.entries : e.id \in others}
                       = {e \in store.entries : e.id \in others}
                 /\ RowsOf(store', others) = RowsOf(store, others)
                 /\ Cardinality(RowsOf(store', new).metadata) = 1
                 /\ Cardinality(RowsOf(store', new).events) = Len(payloads)
                 /\ Cardinality(RowsOf(store', new).people) = Len(people)
                 /\ Cardinality(store'.metadata) = Cardinality(store.metadata)
                 /\ Cardinality(store'.events) = Cardinality(store.events)
                 /\ Cardinality(store'.people) = Cardinality(store.people)]_vars

\* An entry with metrics, event and person has been replaced by a changed
\* file while the entry of another path, with its rows, is stored.
C25_Witness ==
    /\ ingest.pc = "done"
    /\ ingest.result = Returned(TRUE)
    /\ ~IsNone(ingest.call.existing)
    /\ \E e \in store.entries :
          /\ e.source_path = ingest.call.path
          /\ e.raw_text = ingest.call.text
          /\ RowsOf(store, {e.id}).people # {}
    /\ \E e \in store.entries :
          /\ e.source_path # ingest.call.path
          /\ RowsOf(store, {e.id}).people # {}
    /\ Cardinality(store.metadata) = 2

\* C26: ingest_journal returns False exactly when skip_if_unchanged is set
\* and an entry of the same path with the same content hash is stored; it
\* then has not called the extraction and leaves the store as it is.  When
\* it returns otherwise it returns True, and the store then holds one entry
\* of the path, with the hash of the file and the date given.
C26_FalseIffSkipped ==
    [][ingest' # ingest =>
          LET call      == ingest'.call
              unchanged == \E e \in store.entries :
                              /\ e.source_path = call.path
                              /\ e.file_hash = _content_hash(call.text)
          IN  /\ (ingest'.result = Returned(FALSE))
                    <=> (call.skip_if_unchanged /\ unchanged)
              /\ ingest'.result = Returned(FALSE) =>
                    (IsNone(ingest'.outcome) /\ store' = store)
              /\ (ingest'.result.ok /\ ingest'.result # Returned(FALSE)) =>
                    /\ ingest'.result = Returned(TRUE)
                    /\ ~IsNone(ingest'.outcome)
                    /\ \E e \in store'.entries :
                          /\ e.source_path = call.path
                          /\ e.file_hash = _content_hash(call.text)
                          /\ e.entry_date = call.entry_date
                          /\ \A x \in store'.entries :
                                x.source_path = call.path => x = e]_vars

\* An unchanged file skipped, under another date than the stored one.
C26_Witness ==
    /\ ingest.pc = "done"
    /\ ingest.result = Returned(FALSE)
    /\ ingest.call.skip_if_unchanged
    /\ IsNone(ingest.outcome)
    /\ \E e \in store.entries :
          /\ e.source_path = ingest.call.path
          /\ e.file_hash = ingest.call.file_hash
          /\ e.entry_date # ingest.call.entry_date

(***************************************************************************)
(* The token store (specification SpecOAuth).                              *)
(***************************************************************************)
TokenFields(storage) ==
    <<storage.access_token, storage.refresh_token, storage.expires_in, storage.scope>>

\* The step is the start of a request to a data endpoint.
DataRequest == whoop.pc = "idle" /\ whoop'.pc # "idle"

StatusAndLogout ==
    /\ oauth.last.endpoint = "status" =>
          /\ oauth.last.authenticated = ~IsNone(oauth.storage.access_token)
          /\ IsNone(oauth.storage.access_token) => IsNone(oauth.last.scopes)
    /\ oauth.last.endpoint = "logout" => oauth.storage = EmptyStorage

\* C27 as stated: while no access token is stored the status endpoint
\* answers authenticated = false without scopes and every data endpoint
\* answers 401 without a call to the WHOOP API; logout empties the token
\* store, pending login state included.
C27_NoTokenMeans401 ==
    /\ [](StatusAndLogout)
    /\ [][(DataRequest /\ IsNone(oauth.storage.access_token)) =>
             /\ whoop'.pc = "done"
             /\ whoop'.responses = <<NotAuthenticated>>
             /\ whoop'.sent = <<>>]_vars

\* C27, amended: while no access token is stored the status endpoint answers
\* authenticated = false without scopes and no data endpoint calls the
\* WHOOP API: each answers 401, but for the summary endpoint asked for a
\* start date after the end date, which answers 400; logout empties the
\* token store, pending login state included.
C27_NoTokenNoCall ==
    /\ [](StatusAndLogout)
    /\ [][(DataRequest /\ IsNone(oauth.storage.access_token)) =>
             /\ whoop'.pc = "done"
             /\ whoop'.sent = <<>>
             /\ whoop'.responses =
                   IF /\ whoop'.endpoint = "summary"
                      /\ Get(whoop'.start_date) > Get(whoop'.end_date)
                   THEN <<SummaryBadRange>> ELSE <<NotAuthenticated>>]_vars

\* A data request answered 401 after a logout that came while a refresh of
\* stored tokens was awaiting the vendor.
C27_Witness ==
    /\ oauth.last.endpoint = "logout"
    /\ oauth.storage = EmptyStorage
    /\ \E f \in Flights : oauth.flight[f].kind = "refresh"
    /\ whoop.pc = "done"
    /\ whoop.responses = <<NotAuthenticated>>
    /\ whoop.sent = <<>>

\* The step is one of a login or callback request.
CallbackStep == oauth' # oauth /\ oauth'.last.endpoint = "callback"
CallbackEnds(f) == oauth.flight[f].kind = "callback" /\ oauth'.flight[f] = NoFlight
CallbackArrives == CallbackStep /\ \A f \in Flights : ~CallbackEnds(f)

\* C28: however login and callback requests interleave, a callback goes on
\* to the token exchange, and so may write tokens, only if its state
\* parameter is the stored one, that of the latest login and not yet used;
\* any other callback is answered 400 and leaves the store as it is; passing
\* the check uses the state up, and the end of the exchange, failed or not,
\* does not bring it back.
C28_StateIsSingleUse ==
    /\ [][(oauth' # oauth /\ oauth'.last.endpoint \in {"login", "callback"}
           /\ TokenFields(oauth'.storage) # TokenFields(oauth.storage)) =>
             /\ oauth'.last = [endpoint |-> "callback", status |-> 307,
                               state |-> oauth'.last.state]
             /\ \E f \in Flights :
                   CallbackEnds(f) /\ oauth.flight[f].state = oauth'.last.state]_vars
    /\ [][\A f \in Flights :
             (oauth.flight[f] = NoFlight /\ oauth'.flight[f].kind = "callback") =>
                /\ oauth.storage.oauth_state = Some(oauth'.flight[f].state)
                /\ IsNone(oauth'.storage.oauth_state)
                /\ TokenFields(oauth'.storage) = TokenFields(oauth.storage)]_vars
    /\ [][(CallbackArrives /\ oauth.storage.oauth_state # Some(oauth'.last.state)) =>
             /\ oauth'.last.status = 400
             /\ oauth'.storage = oauth.storage
             /\ oauth'.flight = oauth.flight]_vars
    /\ [][(CallbackStep /\ \E f \in Flights : CallbackEnds(f)) =>
             /\ oauth'.storage.oauth_state = oauth.storage.oauth_state
             /\ oauth'.last.status # 307 => oauth'.storage = oauth.storage]_vars
    /\ [][(oauth' # oauth /\ oauth'.last.endpoint = "login"
           /\ oauth'.last.status = 307) =>
             oauth'.storage =
                [oauth.storage EXCEPT !.oauth_state = Some(oauth'.last.state)]]_vars

\* A second callback with the state of a callback that passed the check and
\* is awaiting the vendor: answered 400.
C28_Witness ==
    /\ oauth.last.endpoint = "callback"
    /\ oauth.last.status = 400
    /\ \E f \in Flights :
          /\ oauth.flight[f].kind = "callback"
          /\ oauth.flight[f].state = oauth.last.state
    /\ IsNone(oauth.storage.oauth_state)

RefreshStep == oauth' # oauth /\ oauth'.last.endpoint = "refresh"
RefreshEnds(f) == oauth.flight[f].kind = "refresh" /\ oauth'.flight[f] = NoFlight

\* C29: a refresh with no refresh token stored is answered 401 and no
\* request goes to the vendor; when the vendor refuses the refresh the
\* stored access token, refresh token, expiry and scope stay as they are; a
\* refresh the vendor answers with 200, and no other, puts the four fields
\* of the answer in their place.
C29_RefreshKeepsOrReplaces ==
    /\ [][(RefreshStep /\ \A f \in Flights : ~RefreshEnds(f)) =>
             /\ oauth'.storage = oauth.storage
             /\ IF IsNone(oauth.storage.refresh_token)
                THEN oauth'.last.status = 401 /\ oauth'.flight = oauth.flight
                ELSE \E f \in Flights :
                        /\ oauth.flight[f] = NoFlight
                        /\ oauth'.flight[f] =
                              [kind |-> "refresh",
                               refresh_token |-> Get(oauth.storage.refresh_token)]]_vars
    /\ [][(RefreshStep /\ \E f \in Flights : RefreshEnds(f)) =>
             IF oauth'.last.status = 200
             THEN \E tokens \in TokenBodies :
                     oauth'.storage =
                        [oauth.storage EXCEPT !.access_token = tokens.access_token,
                                              !.refresh_token = tokens.refresh_token,
                                              !.expires_in = tokens.expires_in,
                                              !.scope = tokens.scope]
             ELSE oauth'.storage = oauth.storage]_vars

\* The vendor has refused a refresh and the tokens are still stored.
C29_Witness ==
    /\ oauth.last.endpoint = "refresh"
    /\ oauth.last.status = 400
    /\ oauth.storage.access_token = Some("a1")
    /\ oauth.storage.refresh_token = Some("r1")
    /\ oauth.storage.scope = Some("offline read:profile")

(***************************************************************************)
(* The batch ingest (specification SpecBatch).                             *)
(***************************************************************************)
BatchEnded == batch.pc \in {"done", "raised"}

\* C30: a batch ingest takes up every Markdown file of the directory once,
\* in the order of the file names; a failure on one file is counted as an
\* error and the other files are ingested all the same, their entries
\* staying in the store; and at the end processed + skipped + errors is the
\* number of files.
C30_EveryFileOnce ==
    /\ [](batch.pc # "idle" =>
            /\ batch.taken = SubSeq(batch.paths, 1, Len(batch.taken))
            /\ batch.pc = "loop" => Len(batch.taken) < Len(batch.paths)
            /\ Len(batch.failed) = batch.errors
            /\ \A i \in 1..Len(batch.taken) :
                  \* a file taken up without failure and bearing a date is stored
                  (batch.taken[i] \in {"2024-02-01.md", "2024-02-02.md"}
                   /\ \A j \in 1..Len(batch.failed) : batch.failed[j] # batch.taken[i])
                     => \E e \in store.entries : e.source_path = "notes/" \o batch.taken[i])
    /\ [](BatchEnded =>
            /\ batch.taken = batch.paths
            /\ batch.paths # <<>> =>
                  /\ ~IsNone(batch.summary)
                  /\ Get(batch.summary).processed + Get(batch.summary).skipped
                     + Get(batch.summary).errors = Len(batch.paths))

\* What does hold: the same, for a directory in which no file name carries
\* digits that are no date; with such a file the batch stops at it with
\* ValueError, the later files are not taken up and no count is printed, the
\* entries of the earlier files staying stored.
BatchAsCoded ==
    /\ batch.pc # "idle" =>
          /\ batch.taken = SubSeq(batch.paths, 1, Len(batch.taken))
          /\ Len(batch.failed) = batch.errors
          /\ batch.processed + batch.skipped + batch.errors
             = Len(batch.taken) - (IF batch.pc = "raised" THEN 1 ELSE 0)
          /\ \A i \in 1..Len(batch.taken) :
                (batch.taken[i] \in {"2024-02-01.md", "2024-02-02.md"}
                 /\ \A j \in 1..Len(batch.failed) : batch.failed[j] # batch.taken[i])
                   => \E e \in store.entries : e.source_path = "notes/" \o batch.taken[i]
    /\ batch.pc = "done" =>
          /\ batch.taken = batch.paths
          /\ \A i \in 1..Len(batch.paths) : batch.paths[i] # "2024-02-30.md"
          /\ batch.paths # <<>> =>
                Get(batch.summary) = [processed |-> batch.processed,
                                      skipped |-> batch.skipped, errors |-> batch.errors]
    /\ batch.pc = "raised" =>
          /\ batch.taken[Len(batch.taken)] = "2024-02-30.md"
          /\ batch.raised = Some(InvalidDateError)
          /\ IsNone(batch.summary)

=============================================================================
